---- MODULE Spec2Model ----
(***************************************************************************)
(* AceForgeSunoAudioProcessor (src/plugin/PluginProcessor.cpp): the job    *)
(* state machine, the result mailbox, the playback staging double buffer,  *)
(* the ring buffer drain and the segment store, as a state machine.        *)
(*                                                                         *)
(* Units.  One model frame stands for 22050 frames of audio and one model  *)
(* rate unit for 22050 Hz, so the 44100-frame minimum duration is 2 and    *)
(* the default host rate 44100.0 is 2.  Sample values are multiples of 4   *)
(* and rates are powers of two, so every product and quotient of the       *)
(* linear interpolation is exact, as it is in IEEE arithmetic.             *)
(***************************************************************************)
EXTENDS Integers, Sequences, FiniteSets, TLC

\* ------------------------------------------------------------------ bounds
\* Worker threads that may exist at once (std::thread objects are detached
\* and unbounded in the code).
MaxWorkers == 2
\* Status polls one job may make before the backend answers with a terminal
\* status.
MaxPolls == 1
\* Segments the store may hold.
MaxSegments == 2
\* Frames one capture may collect.
MaxCaptureFrames == 3
\* Frames of one audio callback.
MaxBlock == 2

\* -------------------------------------------------------- program constants
\* PluginProcessor.cpp:141,771 (44100 frames, about one second), in units of
\* 22050 frames.
kMinFrames == 2
\* PluginProcessor.h:107 (1 << 20), scaled to the model's frame unit.
kPlaybackFifoFrames == 4
\* PluginProcessor.h:115 (sampleRate_{ 44100.0 }), in units of 22050 Hz.
kDefaultRate == 2

VARIABLES
    \* job state machine
    state_, statusText_, lastError_, connected_, apiKey_,
    jobPrompt_, jobTitle_, jobIsCover_, jobIsAddVocals_, jobSegmentIndex_,
    \* callers of the trigger functions and of handleAsyncUpdate; traced[t]
    \* is history: another call has won the exchange since t's call loaded state_
    tpc, texpected, targs, tsegIdx, traced,
    \* worker threads
    wpc, wkind, wwav, wcalls,
    \* result mailbox and the AsyncUpdater's pending flag
    pendingWavBytes_, pendingPrompt_, pendingIsTest_, asyncPending,
    \* handleAsyncUpdate locals
    hWav, hPrompt, hIsTest, hOut, hWriteIdx,
    \* playback staging and ring buffer
    sampleRate_, pendingPlaybackBuffer_, pendingPlaybackFrames_,
    pendingPlaybackBufferIndex_, nextWriteIndex_, pendingPlaybackReady_,
    playbackBuffer_, fifoStart, fifoEnd,
    \* processBlock locals and its output
    apc, aNumSamples, aN, aBufIdx, aSnap, aRace, aOut,
    \* segment store and transport capture; captured is history: the samples
    \* appended to the in-progress buffer since the last rising edge
    segments_, selectedSegmentIndex_, currentSegmentBuffer_, wasPlaying_,
    transportRecording_, captured,
    \* the three CriticalSections: who is inside each, and the enter and exit
    \* calls each thread still has to make in the function it is running
    lockOwner, lprog,
    \* the backend: what getTaskStatus answers for the task submitted last
    backendStatus,
    \* history: the buffer of the segment that was selected when the last
    \* cover or add-vocals call loaded state_ and went on
    jobSegment,
    \* the library directory: the prompts that came with the payloads
    \* handleAsyncUpdate has written a file for
    library

jobVars == <<state_, statusText_, lastError_, connected_, apiKey_>>
paramVars == <<jobPrompt_, jobTitle_, jobIsCover_, jobIsAddVocals_, jobSegmentIndex_>>
callerVars == <<tpc, texpected, targs, tsegIdx, traced>>
workerVars == <<wpc, wkind, wwav, wcalls>>
mailVars == <<pendingWavBytes_, pendingPrompt_, pendingIsTest_>>
handlerVars == <<hWav, hPrompt, hIsTest, hOut, hWriteIdx>>
stageVars == <<pendingPlaybackBuffer_, pendingPlaybackFrames_,
               pendingPlaybackBufferIndex_, nextWriteIndex_, pendingPlaybackReady_>>
fifoVars == <<playbackBuffer_, fifoStart, fifoEnd>>
audioVars == <<apc, aNumSamples, aN, aBufIdx, aSnap, aRace, aOut>>
segVars == <<segments_, selectedSegmentIndex_, currentSegmentBuffer_, wasPlaying_,
             transportRecording_, captured>>
lockVars == <<lockOwner, lprog>>
envVars == <<backendStatus, jobSegment, library>>
dataVars == <<jobVars, paramVars, callerVars, workerVars, mailVars, asyncPending,
              handlerVars, sampleRate_, stageVars, fifoVars, audioVars, segVars,
              envVars>>
vars == <<dataVars, lockVars>>

\* ------------------------------------------------------------ small helpers
Min(a, b) == IF a < b THEN a ELSE b
Max(a, b) == IF a > b THEN a ELSE b
\* juce::jlimit(lo, hi, v)
jlimit(lo, hi, v) == IF v < lo THEN lo ELSE IF hi < v THEN hi ELSE v

Threads == {"msg", "ui"}
Workers == 1..MaxWorkers
Busy == {"Submitting", "Running"}
States == {"Idle", "Submitting", "Running", "Succeeded", "Failed"}
Kinds == {"generate", "cover", "vocals", "test"}

\* Byte payloads are records of what a WAV reader would find in them.
\* An empty std::vector<uint8_t>:
NoBytes == [what |-> "empty", ch |-> 0, rate |-> 0, frames |-> <<>>]
ZeroCalls == [probe |-> 0, upload |-> 0, submit |-> 0, poll |-> 0, fetch |-> 0]

\* ------------------------------------------------------------ segment store
\* RecordedSegment: interleaved stereo samples, a rate and two trim offsets.
Segment(buf, rate) ==
    [buffer |-> buf, sampleRate |-> rate, trimStartSamples |-> 0, trimEndSamples |-> 0]

TotalFrames(seg) == Len(seg.buffer) \div 2

\* trimEnd of 0 means the full length.
EffectiveEnd(seg) ==
    IF seg.trimEndSamples > 0 THEN seg.trimEndSamples ELSE TotalFrames(seg)

\* A check of the selection that looks at the whole buffer, not the trim.
hasSelectedSegmentUntrimmed ==
    LET idx == selectedSegmentIndex_ IN
    IF idx < 0 THEN FALSE
    ELSE IF idx >= Len(segments_) THEN FALSE
    ELSE TotalFrames(segments_[idx + 1]) >= kMinFrames

\* hasSelectedSegment()
hasSelectedSegment ==
    LET idx == selectedSegmentIndex_ IN
    IF idx < 0 THEN FALSE
    ELSE IF idx >= Len(segments_) THEN FALSE
    ELSE LET seg == segments_[idx + 1] IN
         IF TotalFrames(seg) < kMinFrames THEN FALSE
         ELSE (EffectiveEnd(seg) - seg.trimStartSamples) >= kMinFrames

\* The frames [start, start + n) of an interleaved stereo buffer, as <<l, r>>.
FramesOf(buf, start, n) ==
    [i \in 1..n |-> <<buf[(start + i - 1) * 2 + 1], buf[(start + i - 1) * 2 + 2]>>]

\* A decodable payload: what the WAV writer produces and the reader returns.
WavBytes(ch, rate, frames) ==
    [what |-> "wav", ch |-> ch, rate |-> rate, frames |-> frames]

\* An encoder that writes the whole buffer whatever the trim.
encodeWholeSegment(segmentIndex) ==
    IF segmentIndex < 0 \/ segmentIndex >= Len(segments_) THEN NoBytes
    ELSE LET seg == segments_[segmentIndex + 1] IN
         IF TotalFrames(seg) <= 0 THEN NoBytes
         ELSE WavBytes(2, seg.sampleRate, FramesOf(seg.buffer, 0, TotalFrames(seg)))

\* encodeSegmentAsWav(segmentIndex): the trimmed span as a stereo WAV, or
\* nothing.
encodeSegmentAsWav(segmentIndex) ==
    IF segmentIndex < 0 \/ segmentIndex >= Len(segments_) THEN NoBytes
    ELSE LET seg == segments_[segmentIndex + 1]
             totalFrames == TotalFrames(seg)
             start == seg.trimStartSamples
             end == EffectiveEnd(seg)
             numFrames == Max(0, end - start)
         IN IF totalFrames <= 0 THEN NoBytes
            ELSE IF numFrames <= 0 THEN NoBytes
            ELSE WavBytes(2, seg.sampleRate, FramesOf(seg.buffer, start, numFrames))

\* setSegmentTrim(index, startSamples, endSamples)
TrimmedSegment(seg, startSamples, endSamples) ==
    LET totalFrames == TotalFrames(seg) IN
    [seg EXCEPT !.trimStartSamples = jlimit(0, totalFrames, startSamples),
                !.trimEndSamples = IF endSamples <= 0 THEN 0
                                   ELSE jlimit(0, totalFrames, endSamples)]

setSegmentTrim(index, startSamples, endSamples) ==
    /\ tpc["msg"] = "idle"
    /\ IF index < 0 \/ index >= Len(segments_)
       THEN segments_' = segments_
       ELSE segments_' = [segments_ EXCEPT ![index + 1] =
                              TrimmedSegment(@, startSamples, endSamples)]
    /\ UNCHANGED <<jobVars, paramVars, callerVars, workerVars, mailVars, asyncPending,
                   handlerVars, sampleRate_, stageVars, fifoVars, audioVars,
                   selectedSegmentIndex_, currentSegmentBuffer_, wasPlaying_,
                   transportRecording_, captured,
                   lockVars, envVars>>

\* removeSegment(index)
RemoveAt(seq, i) == [k \in 1..(Len(seq) - 1) |-> IF k < i THEN seq[k] ELSE seq[k + 1]]

\* A removal that erases the segment and leaves the selected index alone.
removeSegmentKeepingSelection(index) ==
    /\ tpc["msg"] = "idle"
    /\ IF index < 0 \/ index >= Len(segments_)
       THEN UNCHANGED segments_
       ELSE segments_' = RemoveAt(segments_, index + 1)
    /\ UNCHANGED <<jobVars, paramVars, callerVars, workerVars, mailVars, asyncPending,
                   handlerVars, sampleRate_, stageVars, fifoVars, audioVars,
                   selectedSegmentIndex_, currentSegmentBuffer_, wasPlaying_,
                   transportRecording_, captured,
                   lockVars, envVars>>

removeSegment(index) ==
    /\ tpc["msg"] = "idle"
    /\ IF index < 0 \/ index >= Len(segments_)
       THEN UNCHANGED <<segments_, selectedSegmentIndex_>>
       ELSE /\ segments_' = RemoveAt(segments_, index + 1)
            /\ selectedSegmentIndex_' =
                   IF selectedSegmentIndex_ = index THEN -1
                   ELSE IF selectedSegmentIndex_ > index THEN selectedSegmentIndex_ - 1
                   ELSE selectedSegmentIndex_
    /\ UNCHANGED <<jobVars, paramVars, callerVars, workerVars, mailVars, asyncPending,
                   handlerVars, sampleRate_, stageVars, fifoVars, audioVars,
                   currentSegmentBuffer_, wasPlaying_, transportRecording_, captured,
                   lockVars, envVars>>

\* A clear that leaves the selection where it was.
clearAllSegmentsKeepingSelection ==
    /\ tpc["msg"] = "idle"
    /\ segments_' = <<>>
    /\ currentSegmentBuffer_' = <<>>
    /\ UNCHANGED <<jobVars, paramVars, callerVars, workerVars, mailVars, asyncPending,
                   handlerVars, sampleRate_, stageVars, fifoVars, audioVars,
                   selectedSegmentIndex_, wasPlaying_, transportRecording_, captured,
                   lockVars, envVars>>

\* clearAllSegments()
clearAllSegments ==
    /\ tpc["msg"] = "idle"
    /\ segments_' = <<>>
    /\ currentSegmentBuffer_' = <<>>
    /\ selectedSegmentIndex_' = -1
    /\ UNCHANGED <<jobVars, paramVars, callerVars, workerVars, mailVars, asyncPending,
                   handlerVars, sampleRate_, stageVars, fifoVars, audioVars,
                   wasPlaying_, transportRecording_, captured,
                   lockVars, envVars>>

\* setApiKey(key): the key is trimmed, the client gets it, and the connected
\* flag follows the credit check (ok is what checkCredits answers).
setApiKey(key, ok) ==
    /\ tpc["msg"] = "idle"
    /\ apiKey_' = key
    /\ connected_' = (key # "" /\ ok)
    /\ UNCHANGED <<state_, statusText_, lastError_, paramVars, callerVars, workerVars,
                   mailVars, asyncPending, handlerVars, sampleRate_, stageVars,
                   fifoVars, audioVars, segVars,
                   lockVars, envVars>>

\* The credentials a host session holds, and their UTF-8 code units.
Keys == {"", "k"}
KeyChars(key) == IF key = "k" THEN <<107>> ELSE <<>>

\* getStateInformation: stream.writeString(apiKey_) writes the key's bytes
\* and a terminating zero.
writeString(key) == KeyChars(key) \o <<0>>

\* stream.readString(): the text up to the first zero or the end of the
\* data.
readString(data) ==
    LET zeros == {i \in 1..Len(data) : data[i] = 0}
        n == IF zeros = {} THEN Len(data)
             ELSE (CHOOSE i \in zeros : \A j \in zeros : i <= j) - 1
        chars == SubSeq(data, 1, n)
    IN CHOOSE key \in Keys : KeyChars(key) = chars

\* The blocks a host hands to setStateInformation: nothing, or what
\* getStateInformation wrote for some key.
SavedStates == {<<>>} \cup {writeString(key) : key \in Keys}

\* setStateInformation(data, sizeInBytes): an empty block is ignored; else
\* the key is read and given to the client, and connected_ is set when the
\* client has a key and the credit check (ok) passes.
setStateInformation(data, ok) ==
    /\ tpc["msg"] = "idle"
    /\ IF Len(data) <= 0
       THEN UNCHANGED <<apiKey_, connected_>>
       ELSE /\ apiKey_' = readString(data)
            /\ connected_' = (IF readString(data) # "" /\ ok THEN TRUE ELSE connected_)
    /\ UNCHANGED <<state_, statusText_, lastError_, paramVars, callerVars, workerVars,
                   mailVars, asyncPending, handlerVars, sampleRate_, stageVars,
                   fifoVars, audioVars, segVars,
                   lockVars, envVars>>

\* --------------------------------------------------------------- triggers
\* The arguments of one trigger call.
Args(kind, prompt, title) == [kind |-> kind, prompt |-> prompt, title |-> title]
NoArgs == Args("none", "", "")
\* The texts the user may have typed: <<prompt, title>>.
Typed == {<<"p1", "">>}

DefaultTitle(kind) ==
    CASE kind = "generate" -> "aceforge_suno"
      [] kind = "cover" -> "aceforge_suno_cover"
      [] kind = "vocals" -> "aceforge_suno_vocals"
      [] OTHER -> ""

Alive == {w \in Workers : wpc[w] # "none"}
InCall == {t \in Threads : tpc[t] \in {"cas", "spawn"}}
\* A new call is begun only while a thread slot is left for its worker.
SlotLeft == Cardinality(Alive) + Cardinality(InCall) < MaxWorkers

\* State expected = state_.load(); while (expected == Submitting ||
\* expected == Running) return;   -- the call goes on to the exchange.
LoadExpected(t, args, segIdx) ==
    IF state_ \in Busy
    THEN UNCHANGED <<callerVars>>
    ELSE /\ SlotLeft
         /\ tpc' = [tpc EXCEPT ![t] = "cas"]
         /\ texpected' = [texpected EXCEPT ![t] = state_]
         /\ targs' = [targs EXCEPT ![t] = args]
         /\ tsegIdx' = [tsegIdx EXCEPT ![t] = segIdx]
         /\ traced' = traced

\* startGenerate(...), to the load of state_.
startGenerate(t, prompt, title) ==
    /\ tpc[t] = "idle"
    /\ LoadExpected(t, Args("generate", prompt, title), -1)
    /\ UNCHANGED <<jobVars, paramVars, workerVars, mailVars, asyncPending,
                   handlerVars, sampleRate_, stageVars, fifoVars, audioVars, segVars,
                   lockVars, envVars>>

\* startTestApi(), to the load of state_.
startTestApi(t) ==
    /\ tpc[t] = "idle"
    /\ LoadExpected(t, Args("test", "", ""), -1)
    /\ UNCHANGED <<jobVars, paramVars, workerVars, mailVars, asyncPending,
                   handlerVars, sampleRate_, stageVars, fifoVars, audioVars, segVars,
                   lockVars, envVars>>

\* The segment check that opens startUploadCover and startAddVocals.
NoSegmentSelected(segIdx) == ~hasSelectedSegment \/ segIdx < 0

\* startUploadCover / startAddVocals (kind, text), to the load of state_:
\* first the segment check, which on failure stores Failed and the reason
\* whatever state_ is, then the same load as startGenerate.
StartWithSegment(t, kind, text, prompt, title) ==
    /\ tpc[t] = "idle"
    /\ LET segIdx == selectedSegmentIndex_ IN
       IF NoSegmentSelected(segIdx)
       THEN /\ state_' = "Failed"
            /\ lastError_' = text
            /\ statusText_' = text
            /\ asyncPending' = TRUE
            /\ UNCHANGED <<connected_, apiKey_, callerVars, jobSegment>>
       ELSE /\ LoadExpected(t, Args(kind, prompt, title), segIdx)
            /\ jobSegment' = (IF state_ \in Busy THEN jobSegment
                              ELSE segments_[segIdx + 1].buffer)
            /\ UNCHANGED <<jobVars, asyncPending>>
    /\ UNCHANGED <<paramVars, workerVars, mailVars, handlerVars, sampleRate_,
                   stageVars, fifoVars, audioVars, segVars,
                   lockVars, backendStatus, library>>

startUploadCover(t, prompt, title) ==
    StartWithSegment(t, "cover",
        "Select a recorded segment first (DAW Play then Stop to capture).",
        prompt, title)

startAddVocals(t, prompt, title) ==
    StartWithSegment(t, "vocals",
        "Select a recorded segment first (DAW Play then Stop to capture instrumental).",
        prompt, title)

\* if (!state_.compare_exchange_strong(expected, State::Submitting)) return;
CompareExchange(t) ==
    /\ tpc[t] = "cas"
    /\ IF state_ = texpected[t]
       THEN /\ state_' = "Submitting"
            /\ tpc' = [tpc EXCEPT ![t] = "spawn"]
            /\ traced' = [u \in Threads |-> u # t /\ (traced[u] \/ tpc[u] = "cas")]
            /\ UNCHANGED <<targs, tsegIdx>>
       ELSE /\ state_' = state_
            /\ tpc' = [tpc EXCEPT ![t] = "idle"]
            /\ targs' = [targs EXCEPT ![t] = NoArgs]
            /\ tsegIdx' = [tsegIdx EXCEPT ![t] = -1]
            /\ traced' = [traced EXCEPT ![t] = FALSE]
    /\ texpected' = [texpected EXCEPT ![t] = "Idle"]
    /\ UNCHANGED <<statusText_, lastError_, connected_, apiKey_, paramVars,
                   workerVars, mailVars, asyncPending, handlerVars, sampleRate_,
                   stageVars, fifoVars, audioVars, segVars,
                   lockVars, envVars>>

\* The job parameters the winning call writes (startTestApi writes none).
WriteJobParams(a, segIdx) ==
    CASE a.kind = "generate" ->
           /\ jobPrompt_' = a.prompt
           /\ jobTitle_' = (IF a.title = "" THEN DefaultTitle(a.kind) ELSE a.title)
           /\ jobIsCover_' = FALSE
           /\ jobIsAddVocals_' = FALSE
           /\ UNCHANGED jobSegmentIndex_
      [] a.kind \in {"cover", "vocals"} ->
           /\ jobPrompt_' = a.prompt
           /\ jobTitle_' = (IF a.title = "" THEN DefaultTitle(a.kind) ELSE a.title)
           /\ jobIsCover_' = (a.kind = "cover")
           /\ jobIsAddVocals_' = (a.kind = "vocals")
           /\ jobSegmentIndex_' = segIdx
      [] OTHER -> UNCHANGED paramVars

\* The slot the new std::thread takes.
FreeSlot == CHOOSE w \in Workers : wpc[w] = "none" /\ \A v \in Workers : wpc[v] = "none" => w <= v

\* The rest of a winning call: the parameters, triggerAsyncUpdate(), and
\* std::thread t(&run...Thread, this); t.detach();
SpawnWorker(t) ==
    /\ tpc[t] = "spawn"
    /\ WriteJobParams(targs[t], tsegIdx[t])
    /\ asyncPending' = TRUE
    /\ wpc' = [wpc EXCEPT ![FreeSlot] = "start"]
    /\ wkind' = [wkind EXCEPT ![FreeSlot] = targs[t].kind]
    /\ UNCHANGED <<wcalls, wwav>>
    /\ tpc' = [tpc EXCEPT ![t] = "idle"]
    /\ targs' = [targs EXCEPT ![t] = NoArgs]
    /\ tsegIdx' = [tsegIdx EXCEPT ![t] = -1]
    /\ UNCHANGED <<jobVars, texpected, traced, mailVars, handlerVars, sampleRate_, stageVars,
                   fifoVars, audioVars, segVars,
                   lockVars, envVars>>

\* ------------------------------------------------------- status strings
\* The status texts getTaskStatus may return, as their characters.
StatusChars(name) ==
    CASE name = "" -> <<>>
      [] name = "PENDING" -> <<"P","E","N","D","I","N","G">>
      [] name = "SUCCESS" -> <<"S","U","C","C","E","S","S">>
      [] name = "Success" -> <<"S","u","c","c","e","s","s">>
      [] name = "TEXT_SUCCESS" -> <<"T","E","X","T","_","S","U","C","C","E","S","S">>
      [] name = "GENERATE_AUDIO_FAILED" ->
           <<"G","E","N","E","R","A","T","E","_","A","U","D","I","O","_","F","A","I","L","E","D">>
      [] name = "SENSITIVE_WORD_ERROR" ->
           <<"S","E","N","S","I","T","I","V","E","_","W","O","R","D","_","E","R","R","O","R">>
      [] name = "failed" -> <<"f","a","i","l","e","d">>
      [] name = "error" -> <<"e","r","r","o","r">>
      [] name = "success_with_error" ->
           <<"s","u","c","c","e","s","s","_","w","i","t","h","_","e","r","r","o","r">>

StatusNames == {"", "PENDING", "SUCCESS", "Success", "TEXT_SUCCESS", "GENERATE_AUDIO_FAILED",
                "SENSITIVE_WORD_ERROR", "failed", "error", "success_with_error"}

Upper == <<"A","B","C","D","E","F","G","H","I","J","K","L","M","N","O","P","Q","R","S","T",
           "U","V","W","X","Y","Z">>
Lower == <<"a","b","c","d","e","f","g","h","i","j","k","l","m","n","o","p","q","r","s","t",
           "u","v","w","x","y","z">>
ToLower(c) ==
    IF \E i \in 1..Len(Upper) : Upper[i] = c
    THEN Lower[CHOOSE i \in 1..Len(Upper) : Upper[i] = c]
    ELSE c

\* juce::String::equalsIgnoreCase
equalsIgnoreCase(a, b) ==
    /\ Len(a) = Len(b)
    /\ \A i \in 1..Len(a) : ToLower(a[i]) = ToLower(b[i])

\* juce::String::contains (case-sensitive)
contains(s, sub) ==
    \E k \in 0..(Len(s) - Len(sub)) : \A i \in 1..Len(sub) : s[k + i] = sub[i]

IsSuccessStatus(name) ==
    \/ equalsIgnoreCase(StatusChars(name), StatusChars("SUCCESS"))
    \/ equalsIgnoreCase(StatusChars(name), <<"s","u","c","c","e","s","s">>)

IsFailureStatus(name) ==
    /\ StatusChars(name) # <<>>
    /\ \/ contains(StatusChars(name), <<"f","a","i","l">>)
       \/ contains(StatusChars(name), <<"e","r","r","o","r">>)

\* suno::TaskStatus as the worker uses it: the status text, the error
\* message and whether audioUrls is non-empty.
TaskStatus(status, errorMessage, urls) ==
    [status |-> status, errorMessage |-> errorMessage, urls |-> urls]

\* What the collaborator may answer to each call.
\* What the backend answers while it has settled nothing.
NoTask == TaskStatus("PENDING", "", FALSE)

AllPolls == {TaskStatus(s, m, u) : s \in StatusNames, m \in {"", "backend message"},
                                   u \in BOOLEAN}
DecodedWav == WavBytes(2, 2, <<<<4, 8>>, <<8, 4>>>>)
Garbage == [what |-> "garbage", ch |-> 0, rate |-> 0, frames |-> <<>>]
Env(probe, upload, submit, poll, fetch) ==
    [probe |-> probe, upload |-> upload, submit |-> submit, poll |-> poll, fetch |-> fetch]

\* client_->lastError() after a failed call.
ClientLastError(call) ==
    CASE call = "probe" -> "credit check failed"
      [] call = "upload" -> "upload failed"
      [] call = "submit" -> "No taskId in response"
      [] OTHER -> "fetch failed"

\* --------------------------------------------------------- worker threads
\* The worker goes on to pc; call names the collaborator call that has just
\* answered ("" for none).
Goto(w, pc, call) ==
    /\ wpc' = [wpc EXCEPT ![w] = pc]
    /\ wcalls' = (IF call = "" THEN wcalls ELSE [wcalls EXCEPT ![w][call] = @ + 1])
    /\ wkind' = wkind

\* The thread function returns: its locals are gone.
Return(w) ==
    /\ wpc' = [wpc EXCEPT ![w] = "none"]
    /\ wcalls' = [wcalls EXCEPT ![w] = ZeroCalls]
    /\ wkind' = [wkind EXCEPT ![w] = "none"]
    /\ wwav' = [wwav EXCEPT ![w] = NoBytes]

\* A failure exit of a worker: state_.store(State::Failed); the texts under
\* statusLock_ (setText is FALSE where the code leaves statusText_ alone);
\* triggerAsyncUpdate(); return.
WorkerFail(w, err, setText) ==
    /\ state_' = "Failed"
    /\ lastError_' = err
    /\ statusText_' = (IF setText THEN err ELSE statusText_)
    /\ asyncPending' = TRUE
    /\ Return(w)

\* What no worker step touches.
UnchangedByWorker ==
    UNCHANGED <<apiKey_, paramVars, callerVars, handlerVars, sampleRate_, stageVars,
                fifoVars, audioVars, segVars,
                   lockVars, envVars>>

\* A worker that goes on to the probe without looking for a key.
WorkerStartWithoutKeyCheck(w) ==
    /\ wpc[w] = "start"
    /\ Goto(w, "probe", "")
    /\ UNCHANGED <<state_, statusText_, lastError_, asyncPending, wwav>>
    /\ UNCHANGED <<connected_, mailVars>>
    /\ UnchangedByWorker

\* if (!client_ || !client_->hasApiKey()) { ... "No API key" ... return; }
WorkerStart(w) ==
    /\ wpc[w] = "start"
    /\ IF apiKey_ = ""
       THEN WorkerFail(w, "No API key", TRUE)
       ELSE /\ Goto(w, "probe", "")
            /\ UNCHANGED <<state_, statusText_, lastError_, asyncPending, wwav>>
    /\ UNCHANGED <<connected_, mailVars>>
    /\ UnchangedByWorker

ProbeFailText(kind) ==
    IF kind \in {"generate", "test"}
    THEN "API key invalid or no credits: credit check failed"
    ELSE "API key invalid or no credits"

\* A failed probe that leaves the connected flag as it was.
ProbeFailedStaysConnected(w) ==
    /\ connected_' = connected_
    /\ WorkerFail(w, ProbeFailText(wkind[w]), TRUE)

\* if (!client_->checkCredits()) { connected_.store(false); ... return; }
ProbeFailed(w) ==
    /\ connected_' = FALSE
    /\ WorkerFail(w, ProbeFailText(wkind[w]), TRUE)

\* client_->checkCredits() has answered ok.
WorkerProbe(w, ok) ==
    /\ wpc[w] = "probe"
    /\ IF ~ok
       THEN ProbeFailed(w)
       ELSE /\ connected_' = TRUE
            /\ wwav' = wwav
            /\ IF wkind[w] = "test"
               THEN /\ state_' = "Running"
                    /\ statusText_' = "Testing API (minimal generate)..."
                    /\ asyncPending' = TRUE
                    /\ Goto(w, "submit", "probe")
                    /\ UNCHANGED lastError_
               ELSE /\ Goto(w, IF wkind[w] = "generate" THEN "submit" ELSE "encode", "probe")
                    /\ UNCHANGED <<state_, statusText_, lastError_, asyncPending>>
    /\ UNCHANGED mailVars
    /\ UnchangedByWorker

\* encodeSegmentAsWav(jobSegmentIndex_) in runUploadCoverThread and
\* runAddVocalsThread, then Running and "Uploading...".
WorkerEncode(w) ==
    /\ wpc[w] = "encode"
    /\ LET wavBytes == encodeSegmentAsWav(jobSegmentIndex_) IN
       IF wavBytes = NoBytes
       THEN WorkerFail(w, "Failed to encode selected segment as WAV", TRUE)
       ELSE /\ wwav' = [wwav EXCEPT ![w] = wavBytes]
            /\ state_' = "Running"
            /\ statusText_' = "Uploading..."
            /\ asyncPending' = TRUE
            /\ Goto(w, "upload", "")
            /\ UNCHANGED lastError_
    /\ UNCHANGED <<connected_, mailVars>>
    /\ UnchangedByWorker

\* A failed upload that is tried again.
UploadRetried(w) ==
    /\ wcalls[w].upload < MaxPolls
    /\ Goto(w, "upload", "upload")
    /\ UNCHANGED <<state_, statusText_, lastError_, asyncPending, wwav>>

\* if (uploadUrl.empty()) { state_.store(State::Failed); ... return; }
UploadFailed(w) == WorkerFail(w, ClientLastError("upload"), TRUE)

\* client_->uploadAudio(wavBytes, ...) has answered (ok: a non-empty URL).
WorkerUpload(w, ok) ==
    /\ wpc[w] = "upload"
    /\ IF ~ok
       THEN UploadFailed(w)
       ELSE /\ Goto(w, "submit", "upload")
            /\ wwav' = [wwav EXCEPT ![w] = NoBytes]
            /\ UNCHANGED <<state_, statusText_, lastError_, asyncPending>>
    /\ UNCHANGED <<connected_, mailVars>>
    /\ UnchangedByWorker

SubmittedText(kind) ==
    CASE kind = "generate" -> "Generating..."
      [] kind = "cover" -> "Generating cover..."
      [] OTHER -> "Adding vocals..."

\* client_->startGenerate / startUploadCover / startAddVocals has answered
\* (ok: a non-empty task id).
WorkerSubmit(w, ok) ==
    /\ wpc[w] = "submit"
    /\ IF ~ok
       THEN WorkerFail(w, ClientLastError("submit"), TRUE)
       ELSE /\ Goto(w, "poll", "submit")
            /\ wwav' = wwav
            /\ lastError_' = lastError_
            /\ state_' = (IF wkind[w] = "generate" THEN "Running" ELSE state_)
            /\ IF wkind[w] = "test"
               THEN UNCHANGED <<statusText_, asyncPending>>
               ELSE /\ statusText_' = SubmittedText(wkind[w])
                    /\ asyncPending' = TRUE
    /\ UNCHANGED <<connected_, mailVars>>
    /\ UnchangedByWorker

NoUrlText(kind) ==
    IF kind = "test" THEN "No audio URL in test result" ELSE "No audio URL in result"

\* A loop that gives up after a status that is neither success nor failure.
PollGivesUp(w) == WorkerFail(w, "Timed out", TRUE)

\* std::this_thread::sleep_for(800 ms) and round the loop again.
PollAgain(w) ==
    /\ wcalls[w].poll < MaxPolls
    /\ Goto(w, "poll", "poll")
    /\ UNCHANGED <<state_, statusText_, lastError_, asyncPending, wwav>>

\* A success without a result URL that is polled again.
PollNoUrlRetries(w) == PollAgain(w)

\* if (st.audioUrls.empty()) { ... "No audio URL in result" ... return; }
PollNoUrl(w) == WorkerFail(w, NoUrlText(wkind[w]), TRUE)

\* One turn of the polling loop: client_->getTaskStatus(taskId) has answered
\* st.  Success is looked at first, then the failure pattern; anything else
\* sleeps 800 ms and polls again.
WorkerPoll(w, st) ==
    /\ wpc[w] = "poll"
    /\ IF IsSuccessStatus(st.status)
       THEN IF ~st.urls
            THEN PollNoUrl(w)
            ELSE /\ Goto(w, "fetch", "poll")
                 /\ UNCHANGED <<state_, statusText_, lastError_, asyncPending, wwav>>
       ELSE IF IsFailureStatus(st.status)
            THEN WorkerFail(w, IF st.errorMessage = "" THEN st.status ELSE st.errorMessage,
                            TRUE)
            ELSE PollAgain(w)
    /\ UNCHANGED <<connected_, mailVars>>
    /\ UnchangedByWorker

\* client_->fetchAudio(st.audioUrls[0]) has answered bytes: empty bytes fail
\* the job (lastError_ only), anything else goes into the mailbox.
WorkerFetch(w, bytes) ==
    /\ wpc[w] = "fetch"
    /\ IF bytes = NoBytes
       THEN /\ WorkerFail(w, ClientLastError("fetch"), FALSE)
            /\ UNCHANGED mailVars
       ELSE /\ pendingWavBytes_' = bytes
            /\ pendingPrompt_' = (IF wkind[w] = "test" THEN "API test" ELSE jobPrompt_)
            /\ pendingIsTest_' = (IF wkind[w] = "test" THEN TRUE ELSE pendingIsTest_)
            /\ asyncPending' = TRUE
            /\ Return(w)
            /\ UNCHANGED <<state_, statusText_, lastError_>>
    /\ UNCHANGED connected_
    /\ UnchangedByWorker

\* ------------------------------------------------------ playback staging
\* std::round of a / b for a >= 0, b > 0.
RoundDiv(a, b) == (2 * a + b) \div (2 * b)

\* An output frame count that is truncated instead of rounded.
OutFramesTruncated(numFrames, sourceSampleRate, hostRate) ==
    IF sourceSampleRate > 0 THEN (numFrames * hostRate) \div sourceSampleRate
    ELSE numFrames

\* outFrames of pushSamplesToPlayback: round(numFrames * hostRate / sourceRate).
OutFrames(numFrames, sourceSampleRate, hostRate) ==
    IF sourceSampleRate > 0 THEN RoundDiv(numFrames * hostRate, sourceSampleRate)
    ELSE numFrames

\* std::vector<float>::resize
Resize(buf, n) == [i \in 1..n |-> IF i <= Len(buf) THEN buf[i] ELSE 0]

\* The interpolation loop of pushSamplesToPlayback: output frame i reads the
\* source at i / ratio = i * sourceRate / hostRate, between frames i0 and i1
\* with weight t = frac(i / ratio).  interleaved is 1-based here.
Resampled(interleaved, numFrames, sourceChannels, sourceSampleRate, hostRate, outFrames) ==
    LET S == IF sourceSampleRate > 0 THEN sourceSampleRate ELSE hostRate
        Smp(i, c) ==
            LET i0 == Min(Max(0, (i * S) \div hostRate), numFrames - 1)
                i1 == Min(i0 + 1, numFrames - 1)
                r == (i * S) % hostRate
                l == (interleaved[i0 * sourceChannels + 1] * (hostRate - r)
                      + interleaved[i1 * sourceChannels + 1] * r) \div hostRate
            IN IF sourceChannels < 1 THEN 0
               ELSE IF c = 0 THEN l
               ELSE IF sourceChannels >= 2
                    THEN (interleaved[i0 * sourceChannels + 2] * (hostRate - r)
                          + interleaved[i1 * sourceChannels + 2] * r) \div hostRate
                    ELSE l
    IN [k \in 1..(2 * outFrames) |-> Smp((k - 1) \div 2, (k - 1) % 2)]

\* A push that rejects only an empty input.
PushRejectedOnlyEmpty(numFrames, sourceSampleRate, hostRate) == numFrames <= 0

\* Whether pushSamplesToPlayback returns before touching a staging buffer.
PushRejected(numFrames, sourceSampleRate, hostRate) ==
    \/ numFrames <= 0
    \/ OutFrames(numFrames, sourceSampleRate, hostRate) <= 0
    \/ OutFrames(numFrames, sourceSampleRate, hostRate) > kPlaybackFifoFrames

\* An interleaved copy that leaves the right channel of a mono file silent.
InterleavedSilentRight(wav) ==
    [k \in 1..(2 * Len(wav.frames)) |->
        LET f == wav.frames[(k + 1) \div 2] IN
        IF k % 2 = 1 THEN f[1] ELSE IF wav.ch > 1 THEN f[2] ELSE 0]

\* The interleaved stereo copy handleAsyncUpdate makes of the decoded file
\* (a mono file is duplicated to both channels).
Interleaved(wav) ==
    [k \in 1..(2 * Len(wav.frames)) |->
        LET f == wav.frames[(k + 1) \div 2] IN
        IF k % 2 = 1 THEN f[1] ELSE IF wav.ch > 1 THEN f[2] ELSE f[1]]

\* ------------------------------------------------------ handleAsyncUpdate
UnchangedByHandlerStart ==
    UNCHANGED <<jobVars, paramVars, texpected, targs, tsegIdx, traced, workerVars, hOut,
                hWriteIdx, sampleRate_, stageVars, fifoVars, audioVars, segVars,
                   lockVars, envVars>>

\* A drain that copies the payload and leaves it in the slot.
handleAsyncUpdateLeavingSlot ==
    /\ tpc["msg"] = "idle"
    /\ asyncPending
    /\ asyncPending' = FALSE
    /\ IF pendingWavBytes_ = NoBytes
       THEN UNCHANGED <<mailVars, hWav, hPrompt, hIsTest, tpc>>
       ELSE /\ hWav' = pendingWavBytes_
            /\ hPrompt' = pendingPrompt_
            /\ hIsTest' = pendingIsTest_
            /\ tpc' = [tpc EXCEPT !["msg"] = "h_decode"]
            /\ UNCHANGED mailVars
    /\ UnchangedByHandlerStart

\* The critical section under pendingWavLock_: return on an empty slot,
\* else take the bytes and the prompt, clear the slot and the test flag.
handleAsyncUpdate ==
    /\ tpc["msg"] = "idle"
    /\ asyncPending
    /\ asyncPending' = FALSE
    /\ IF pendingWavBytes_ = NoBytes
       THEN UNCHANGED <<mailVars, hWav, hPrompt, hIsTest, tpc>>
       ELSE /\ hWav' = pendingWavBytes_
            /\ pendingWavBytes_' = NoBytes
            /\ hPrompt' = pendingPrompt_
            /\ hIsTest' = pendingIsTest_
            /\ pendingIsTest_' = FALSE
            /\ pendingPrompt_' = pendingPrompt_
            /\ tpc' = [tpc EXCEPT !["msg"] = "h_decode"]
    /\ UnchangedByHandlerStart

\* Why the reader rejects the taken bytes, or "" when it decodes them.
DecodeError(wav) ==
    CASE wav.what = "garbage" -> "Failed to decode WAV"
      [] wav.what = "wav" /\ (Len(wav.frames) <= 0 \/ wav.ch <= 0) -> "Invalid WAV"
      [] wav.what = "unreadable" -> "Failed to read WAV samples"
      [] OTHER -> ""

\* The end of handleAsyncUpdate after pushSamplesToPlayback has returned:
\* Succeeded, the status text, and for a payload that is not a test the
\* library file, which is written when the output stream and the writer
\* could be created.
HandlerSucceeds ==
    /\ state_' = "Succeeded"
    /\ statusText_' = (IF hIsTest THEN "API test passed - audio received and playing."
                       ELSE "Generated - playing.")
    /\ library' \in (IF hIsTest THEN {library} ELSE {library, library \cup {hPrompt}})
    /\ tpc' = [tpc EXCEPT !["msg"] = "idle"]
    /\ hWav' = NoBytes
    /\ hPrompt' = ""
    /\ hIsTest' = FALSE

\* Decoding, then pushSamplesToPlayback up to outBuf.resize(): a decode
\* failure stores Failed and returns; a rejected push returns to the
\* handler's end; otherwise the write buffer is resized and being written.
HandlerDecode ==
    /\ tpc["msg"] = "h_decode"
    /\ LET err == DecodeError(hWav)
           numSamples == Len(hWav.frames)
           hostRate == sampleRate_
           outFrames == OutFrames(numSamples, hWav.rate, hostRate)
           writeIdx == nextWriteIndex_
       IN IF err # ""
          THEN /\ state_' = "Failed"
               /\ lastError_' = err
               /\ statusText_' = err
               /\ tpc' = [tpc EXCEPT !["msg"] = "idle"]
               /\ hWav' = NoBytes
               /\ hPrompt' = ""
               /\ hIsTest' = FALSE
               /\ UNCHANGED <<hOut, hWriteIdx, stageVars, aRace, library>>
          ELSE IF PushRejected(numSamples, hWav.rate, hostRate)
          THEN /\ HandlerSucceeds
               /\ UNCHANGED <<lastError_, hOut, hWriteIdx, stageVars, aRace>>
          ELSE /\ hOut' = Resampled(Interleaved(hWav), numSamples, 2, hWav.rate,
                                    hostRate, outFrames)
               /\ hWriteIdx' = writeIdx
               /\ pendingPlaybackBuffer_' =
                      [pendingPlaybackBuffer_ EXCEPT ![writeIdx] = Resize(@, 2 * outFrames)]
               /\ aRace' = (aRace \/ (apc = "copy" /\ aBufIdx = writeIdx))
               /\ tpc' = [tpc EXCEPT !["msg"] = "h_write"]
               /\ UNCHANGED <<state_, statusText_, lastError_, hWav, hPrompt, hIsTest,
                              pendingPlaybackFrames_,
                              pendingPlaybackBufferIndex_, nextWriteIndex_,
                              pendingPlaybackReady_, library>>
    /\ UNCHANGED <<connected_, apiKey_, paramVars, texpected, targs, tsegIdx, traced, workerVars,
                   mailVars, asyncPending, sampleRate_, fifoVars, apc, aNumSamples, aN,
                   aBufIdx, aSnap, aOut, segVars,
                   lockVars, backendStatus, jobSegment>>

\* The interpolation loop has written the samples; then
\* pendingPlaybackFrames_.store(outFrames, release).
HandlerStoreFrames ==
    /\ tpc["msg"] = "h_write"
    /\ pendingPlaybackBuffer_' = [pendingPlaybackBuffer_ EXCEPT ![hWriteIdx] = hOut]
    /\ pendingPlaybackFrames_' = Len(hOut) \div 2
    /\ tpc' = [tpc EXCEPT !["msg"] = "h_index"]
    /\ UNCHANGED <<jobVars, paramVars, texpected, targs, tsegIdx, traced, workerVars, mailVars,
                   asyncPending, handlerVars, sampleRate_, pendingPlaybackBufferIndex_,
                   nextWriteIndex_, pendingPlaybackReady_, fifoVars, audioVars, segVars,
                   lockVars, envVars>>

\* pendingPlaybackBufferIndex_.store(writeIdx, release).
HandlerStoreIndex ==
    /\ tpc["msg"] = "h_index"
    /\ pendingPlaybackBufferIndex_' = hWriteIdx
    /\ tpc' = [tpc EXCEPT !["msg"] = "h_ready"]
    /\ UNCHANGED <<jobVars, paramVars, texpected, targs, tsegIdx, traced, workerVars, mailVars,
                   asyncPending, handlerVars, sampleRate_, pendingPlaybackBuffer_,
                   pendingPlaybackFrames_, nextWriteIndex_, pendingPlaybackReady_,
                   fifoVars, audioVars, segVars,
                   lockVars, envVars>>

\* A staging that keeps writing the buffer it has just published.
SameBuffer(writeIdx) == writeIdx

\* 1 - writeIdx: the buffer the next staging writes.
OtherBuffer(writeIdx) == 1 - writeIdx

\* pendingPlaybackReady_.store(true, release); nextWriteIndex_.store(1 -
\* writeIdx, release); then the handler's end.
HandlerStoreReady ==
    /\ tpc["msg"] = "h_ready"
    /\ pendingPlaybackReady_' = TRUE
    /\ nextWriteIndex_' = OtherBuffer(hWriteIdx)
    /\ HandlerSucceeds
    /\ hOut' = <<>>
    /\ hWriteIdx' = 0
    /\ UNCHANGED <<lastError_, connected_, apiKey_, paramVars, texpected, targs, tsegIdx, traced,
                   workerVars, mailVars, asyncPending, sampleRate_, pendingPlaybackBuffer_,
                   pendingPlaybackFrames_, pendingPlaybackBufferIndex_, fifoVars,
                   audioVars, segVars,
                   lockVars, backendStatus, jobSegment>>

\* ------------------------------------------------------------ ring buffer
\* juce::AbstractFifo playbackFifo_{ kPlaybackFifoFrames } as processBlock
\* uses it: the blocks prepareToWrite and prepareToRead hand out.
Blocks(s1, b1, s2, b2) == [start1 |-> s1, block1 |-> b1, start2 |-> s2, block2 |-> b2]

prepareToWrite(numToWrite, vs, ve) ==
    LET freeSpace == IF ve >= vs THEN kPlaybackFifoFrames - (ve - vs) ELSE vs - ve
        n == Min(numToWrite, freeSpace - 1)
        b1 == Min(kPlaybackFifoFrames - ve, n)
    IN IF n <= 0 THEN Blocks(0, 0, 0, 0)
       ELSE Blocks(ve, b1, 0, IF n - b1 <= 0 THEN 0 ELSE Min(n - b1, vs))

prepareToRead(numWanted, vs, ve) ==
    LET numReady == IF ve >= vs THEN ve - vs ELSE kPlaybackFifoFrames - (vs - ve)
        n == Min(numWanted, numReady)
        b1 == Min(kPlaybackFifoFrames - vs, n)
    IN IF n <= 0 THEN Blocks(0, 0, 0, 0)
       ELSE Blocks(vs, b1, 0, IF n - b1 <= 0 THEN 0 ELSE Min(n - b1, ve))

\* finishedWrite / finishedRead: the index moved on by n, wrapped.
Advance(index, n) ==
    IF index + n >= kPlaybackFifoFrames THEN index + n - kPlaybackFifoFrames ELSE index + n

\* ------------------------------------------------------------ processBlock
\* The input buffer of one callback as interleaved stereo samples.
Flat(input) == [k \in 1..(2 * Len(input)) |-> input[(k + 1) \div 2][IF k % 2 = 1 THEN 1 ELSE 2]]

\* A stop that commits whatever the in-progress buffer holds.
CommitsAnyLength(falling) == falling

\* A stop that commits only a buffer longer than the minimum.
CommitsOverMinimum(falling) == falling /\ Len(currentSegmentBuffer_) > 2 * kMinFrames

\* if (static_cast<int>(currentSegmentBuffer_.size()) >= minSamples) on a
\* falling edge.
Commits(falling) == falling /\ Len(currentSegmentBuffer_) >= 2 * kMinFrames

\* A callback that appends whatever the number of input channels.
AppendsAnyChannels(isPlaying, numCh) == isPlaying

\* if (isPlaying && numCh >= 2): the callback appends its input.
Appends(isPlaying, numCh) == isPlaying /\ numCh >= 2

\* The transport-driven recording block of processBlock, under
\* segmentLock_: the host says isPlaying and hands numCh channels of input.
processBlock(isPlaying, numCh, input) ==
    /\ apc = "idle"
    /\ LET rising == isPlaying /\ ~wasPlaying_
           falling == ~isPlaying /\ wasPlaying_
           commit == Commits(falling)
           kept == IF rising \/ falling THEN <<>> ELSE currentSegmentBuffer_
           since == IF rising THEN <<>> ELSE captured
       IN /\ commit => Len(segments_) < MaxSegments
          /\ Appends(isPlaying, numCh) =>
                 Len(since) + 2 * Len(input) <= 2 * MaxCaptureFrames
          /\ segments_' = (IF commit
                           THEN Append(segments_, Segment(currentSegmentBuffer_, sampleRate_))
                           ELSE segments_)
          /\ selectedSegmentIndex_' = (IF commit THEN Len(segments_)
                                       ELSE selectedSegmentIndex_)
          /\ transportRecording_' = (IF rising THEN TRUE
                                     ELSE IF falling THEN FALSE ELSE transportRecording_)
          /\ wasPlaying_' = isPlaying
          /\ currentSegmentBuffer_' = (IF Appends(isPlaying, numCh)
                                       THEN kept \o Flat(input) ELSE kept)
          /\ captured' = (IF Appends(isPlaying, numCh) THEN since \o Flat(input) ELSE since)
    /\ aNumSamples' = Len(input)
    /\ apc' = "exchange"
    /\ UNCHANGED <<jobVars, paramVars, callerVars, workerVars, mailVars, asyncPending,
                   handlerVars, sampleRate_, stageVars, fifoVars, aN, aBufIdx, aSnap,
                   aRace, aOut,
                   lockVars, envVars>>

UnchangedByDrain ==
    UNCHANGED <<jobVars, paramVars, callerVars, workerVars, mailVars, asyncPending,
                handlerVars, sampleRate_, pendingPlaybackBuffer_, pendingPlaybackFrames_,
                pendingPlaybackBufferIndex_, nextWriteIndex_, segVars,
                   lockVars, envVars>>

\* if (pendingPlaybackReady_.exchange(false, acq_rel))
DrainExchange ==
    /\ apc = "exchange"
    /\ pendingPlaybackReady_' = FALSE
    /\ apc' = (IF pendingPlaybackReady_ THEN "loadN" ELSE "read")
    /\ UNCHANGED <<fifoVars, aNumSamples, aN, aBufIdx, aSnap, aRace, aOut>>
    /\ UnchangedByDrain

\* const int N = pendingPlaybackFrames_.load(acquire);
DrainLoadFrames ==
    /\ apc = "loadN"
    /\ aN' = pendingPlaybackFrames_
    /\ apc' = "loadIdx"
    /\ UNCHANGED <<fifoVars, pendingPlaybackReady_, aNumSamples, aBufIdx, aSnap, aRace, aOut>>
    /\ UnchangedByDrain

\* const int bufIdx = pendingPlaybackBufferIndex_.load(acquire); the size
\* check on srcBuf; playbackFifo_.reset(); the copy out of srcBuf begins.
DrainLoadIndex ==
    /\ apc = "loadIdx"
    /\ LET bufIdx == pendingPlaybackBufferIndex_
           srcBuf == pendingPlaybackBuffer_[bufIdx]
       IN /\ aBufIdx' = bufIdx
          /\ IF aN > 0 /\ aN <= kPlaybackFifoFrames /\ Len(srcBuf) >= 2 * aN
             THEN /\ fifoStart' = 0
                  /\ fifoEnd' = 0
                  /\ aSnap' = srcBuf
                  /\ aRace' = (tpc["msg"] = "h_write" /\ hWriteIdx = bufIdx)
                  /\ apc' = "copy"
             ELSE /\ apc' = "read"
                  /\ UNCHANGED <<fifoStart, fifoEnd, aSnap, aRace>>
    /\ UNCHANGED <<playbackBuffer_, pendingPlaybackReady_, aNumSamples, aN, aOut>>
    /\ UnchangedByDrain

\* What the copy may read out of srcBuf: the buffer as it was when the copy
\* began, unless the producer resized or wrote that buffer meanwhile; then
\* also what the buffer holds now and what the producer is writing.
CopySources ==
    IF ~aRace THEN {aSnap}
    ELSE {aSnap, pendingPlaybackBuffer_[aBufIdx]}
         \cup (IF tpc["msg"] = "h_write" /\ hWriteIdx = aBufIdx THEN {hOut} ELSE {})

\* playbackBuffer_ after copyBlock(fifoStart, count, srcOffset).
copyBlock(ring, src, startFrame, count, srcOffset) ==
    [k \in 1..Len(ring) |->
        LET f == (k - 1) \div 2
            s == (srcOffset + f - startFrame) * 2 + ((k - 1) % 2) + 1
        IN IF f >= startFrame /\ f < startFrame + count
           THEN (IF s <= Len(src) THEN src[s] ELSE 0)
           ELSE ring[k]]

\* prepareToWrite(N, ...), the two copyBlock calls, finishedWrite.
DrainCopy ==
    /\ apc = "copy"
    /\ \E src \in CopySources :
          LET b == prepareToWrite(aN, fifoStart, fifoEnd) IN
          /\ playbackBuffer_' =
                 copyBlock(copyBlock(playbackBuffer_, src, b.start1, b.block1, 0),
                           src, b.start2, b.block2, b.block1)
          /\ fifoEnd' = Advance(fifoEnd, b.block1 + b.block2)
    /\ aSnap' = <<>>
    /\ aRace' = FALSE
    /\ apc' = "read"
    /\ UNCHANGED <<fifoStart, pendingPlaybackReady_, aNumSamples, aN, aBufIdx, aOut>>
    /\ UnchangedByDrain

\* A read that always starts at the first frame of the ring.
readFramesFromZero(startFrame, count) ==
    [i \in 1..count |-> <<playbackBuffer_[(i - 1) * 2 + 1], playbackBuffer_[(i - 1) * 2 + 2]>>]

\* The frames readFrames(fifoStart, count, ...) puts into the output.
readFrames(startFrame, count) ==
    [i \in 1..count |-> <<playbackBuffer_[(startFrame + i - 1) * 2 + 1],
                          playbackBuffer_[(startFrame + i - 1) * 2 + 2]>>]

\* prepareToRead(numSamples, ...), the two readFrames calls, finishedRead,
\* and silence for the rest of the block.
DrainRead ==
    /\ apc = "read"
    /\ LET b == prepareToRead(aNumSamples, fifoStart, fifoEnd)
           readCount == b.block1 + b.block2
       IN /\ aOut' = readFrames(b.start1, b.block1) \o readFrames(b.start2, b.block2)
                     \o [i \in 1..(aNumSamples - readCount) |-> <<0, 0>>]
          /\ fifoStart' = Advance(fifoStart, readCount)
    /\ apc' = "idle"
    /\ UNCHANGED <<playbackBuffer_, fifoEnd, pendingPlaybackReady_, aNumSamples, aN,
                   aBufIdx, aSnap, aRace>>
    /\ UnchangedByDrain

\* prepareToPlay(sampleRate, samplesPerBlock), called while no callback runs.
prepareToPlay(sampleRate) ==
    /\ apc = "idle"
    /\ tpc["msg"] = "idle"
    /\ sampleRate_' = sampleRate
    /\ UNCHANGED <<jobVars, paramVars, callerVars, workerVars, mailVars, asyncPending,
                   handlerVars, stageVars, fifoVars, audioVars, segVars,
                   lockVars, envVars>>

\* ------------------------------------------------------------------ locks
\* segmentLock_, statusLock_ and pendingWavLock_, and the threads that take
\* them.  Every juce::ScopedLock in the source is an enter at its
\* declaration and an exit at the end of its block.
Locks == {"segmentLock_", "statusLock_", "pendingWavLock_"}
LockThreads == {"audio", "msg", "worker"}

Scope(lock) == <<<<"enter", lock>>, <<"exit", lock>>>>
SegmentScope == Scope("segmentLock_")
StatusScope == Scope("statusLock_")
MailboxScope == Scope("pendingWavLock_")

\* A callback that also writes the status text under statusLock_.
processBlockLocksWithStatus == {SegmentScope \o StatusScope}

\* processBlock: the recording block under segmentLock_, nothing else.
processBlockLocks == {SegmentScope}

\* removeSegment, and alike setSegmentTrim, clearAllSegments, getSegment,
\* getNumSegments: one scope of segmentLock_.
removeSegmentLocks == {SegmentScope}

\* getStatusText, getLastError: one scope of statusLock_.
getStatusTextLocks == {StatusScope}

\* startUploadCover, startAddVocals: hasSelectedSegment takes segmentLock_
\* unless nothing is selected; a refusal then writes the texts under
\* statusLock_.
startUploadCoverLocks == {StatusScope, SegmentScope \o StatusScope, SegmentScope}

\* A handler that writes the failure texts while still inside the mailbox's
\* critical section.
handleAsyncUpdateLocksNested ==
    {<<<<"enter", "pendingWavLock_">>, <<"enter", "statusLock_">>,
       <<"exit", "statusLock_">>, <<"exit", "pendingWavLock_">>>>}

\* handleAsyncUpdate: the mailbox's critical section; then, unless the slot
\* was empty, the texts of the outcome under statusLock_.
handleAsyncUpdateLocks == {MailboxScope, MailboxScope \o StatusScope}

\* runGenerateThread, runTestApiThread: a failure text before the job runs;
\* or the running text and then a failure text or the deposit.
runGenerateThreadLocks ==
    {StatusScope, StatusScope \o StatusScope, StatusScope \o MailboxScope}

\* runUploadCoverThread, runAddVocalsThread: as above, with
\* encodeSegmentAsWav under segmentLock_ after the probe and one more
\* status text between upload and submit.
runUploadCoverThreadLocks ==
    {StatusScope,
     SegmentScope \o StatusScope,
     SegmentScope \o StatusScope \o StatusScope,
     SegmentScope \o StatusScope \o StatusScope \o StatusScope,
     SegmentScope \o StatusScope \o StatusScope \o MailboxScope}

\* The lock sequences of the functions each thread runs.
LockPaths(t) ==
    CASE t = "audio" -> processBlockLocks
      [] t = "msg" -> removeSegmentLocks \cup getStatusTextLocks
                      \cup startUploadCoverLocks \cup handleAsyncUpdateLocks
      [] t = "worker" -> runGenerateThreadLocks \cup runUploadCoverThreadLocks

\* The locks thread t is inside.
Held(t) == {l \in Locks : lockOwner[l] = t}

\* The lock thread t is about to enter, if any.
Wanted(t) ==
    IF lprog[t] # <<>> /\ Head(lprog[t])[1] = "enter" THEN {Head(lprog[t])[2]} ELSE {}

\* Thread t, between functions, calls one.
LockCall(t) ==
    /\ lprog[t] = <<>>
    /\ \E path \in LockPaths(t) : lprog' = [lprog EXCEPT ![t] = path]
    /\ UNCHANGED <<lockOwner, dataVars>>

\* CriticalSection::enter: the thread waits until the lock is free.
enter(t) ==
    /\ lprog[t] # <<>>
    /\ Head(lprog[t])[1] = "enter"
    /\ lockOwner[Head(lprog[t])[2]] = "none"
    /\ lockOwner' = [lockOwner EXCEPT ![Head(lprog[t])[2]] = t]
    /\ lprog' = [lprog EXCEPT ![t] = Tail(@)]
    /\ UNCHANGED dataVars

\* CriticalSection::exit
exit(t) ==
    /\ lprog[t] # <<>>
    /\ Head(lprog[t])[1] = "exit"
    /\ lockOwner' = [lockOwner EXCEPT ![Head(lprog[t])[2]] = "none"]
    /\ lprog' = [lprog EXCEPT ![t] = Tail(@)]
    /\ UNCHANGED dataVars

\* No thread is inside a lock or a function that takes one.
LocksFree ==
    /\ lockOwner = [l \in Locks |-> "none"]
    /\ lprog = [t \in LockThreads |-> <<>>]

\* ----------------------------------------------------------- specification
\* The processor after its constructor, but for the key and the segment store.
InitProcessor ==
    /\ LocksFree
    /\ backendStatus = NoTask
    /\ jobSegment = <<>>
    /\ library = {}
    /\ state_ = "Idle"
    /\ statusText_ = "Set API key and click Generate, or record and use Cover / Add Vocals."
    /\ lastError_ = ""
    /\ connected_ = FALSE
    /\ jobPrompt_ = ""
    /\ jobTitle_ = ""
    /\ jobIsCover_ = FALSE
    /\ jobIsAddVocals_ = FALSE
    /\ jobSegmentIndex_ = -1
    /\ tpc = [t \in Threads |-> "idle"]
    /\ texpected = [t \in Threads |-> "Idle"]
    /\ targs = [t \in Threads |-> NoArgs]
    /\ tsegIdx = [t \in Threads |-> -1]
    /\ traced = [t \in Threads |-> FALSE]
    /\ wpc = [w \in Workers |-> "none"]
    /\ wkind = [w \in Workers |-> "none"]
    /\ wwav = [w \in Workers |-> NoBytes]
    /\ wcalls = [w \in Workers |-> ZeroCalls]
    /\ pendingWavBytes_ = NoBytes
    /\ pendingPrompt_ = ""
    /\ pendingIsTest_ = FALSE
    /\ asyncPending = FALSE
    /\ hWav = NoBytes
    /\ hPrompt = ""
    /\ hIsTest = FALSE
    /\ hOut = <<>>
    /\ hWriteIdx = 0
    /\ sampleRate_ = kDefaultRate
    /\ pendingPlaybackBuffer_ = [i \in {0, 1} |-> <<>>]
    /\ pendingPlaybackFrames_ = 0
    /\ pendingPlaybackBufferIndex_ = 0
    /\ nextWriteIndex_ = 0
    /\ pendingPlaybackReady_ = FALSE
    /\ playbackBuffer_ = [k \in 1..(2 * kPlaybackFifoFrames) |-> 0]
    /\ fifoStart = 0
    /\ fifoEnd = 0
    /\ apc = "idle"
    /\ aNumSamples = 0
    /\ aN = 0
    /\ aBufIdx = 0
    /\ aSnap = <<>>
    /\ aRace = FALSE
    /\ aOut = <<>>

\* The segment store and the capture state after the constructor.
InitStore ==
    /\ segments_ = <<>>
    /\ selectedSegmentIndex_ = -1
    /\ currentSegmentBuffer_ = <<>>
    /\ wasPlaying_ = FALSE
    /\ transportRecording_ = FALSE
    /\ captured = <<>>

Init == InitProcessor /\ apiKey_ = "" /\ InitStore

\* The trigger functions as thread t runs them.
Trigger(t) ==
    \/ \E x \in Typed : startGenerate(t, x[1], x[2])
    \/ \E x \in Typed : startUploadCover(t, x[1], x[2])
    \/ \E x \in Typed : startAddVocals(t, x[1], x[2])
    \/ startTestApi(t)
    \/ CompareExchange(t)
    \/ SpawnWorker(t)

\* The worker threads against a collaborator that answers as env allows.
Worker(w, env) ==
    \/ WorkerStart(w)
    \/ \E ok \in env.probe : WorkerProbe(w, ok)
    \/ WorkerEncode(w)
    \/ \E ok \in env.upload : WorkerUpload(w, ok)
    \/ \E ok \in env.submit : WorkerSubmit(w, ok)
    \/ \E st \in env.poll : WorkerPoll(w, st)
    \/ \E bytes \in env.fetch : WorkerFetch(w, bytes)

\* The message thread's drain of the mailbox.
Handler ==
    \/ handleAsyncUpdate
    \/ HandlerDecode
    \/ HandlerStoreFrames
    \/ HandlerStoreIndex
    \/ HandlerStoreReady

\* One recorded segment of three frames, as a capture of three one-frame
\* callbacks at the default rate commits it.
RecordedOnce == <<Segment(<<4, 8, 8, 12, 12, 16>>, kDefaultRate)>>

\* The job state machine: the message thread triggers jobs, edits the
\* segment store and drains the mailbox; workers run the jobs.  It starts
\* without a key or with the key setStateInformation restored, and with an
\* empty store or with one recorded, selected segment.
InitJobs ==
    /\ InitProcessor
    /\ apiKey_ \in {"", "k"}
    /\ \/ segments_ = <<>> /\ selectedSegmentIndex_ = -1
       \/ segments_ = RecordedOnce /\ selectedSegmentIndex_ = 0
    /\ currentSegmentBuffer_ = <<>>
    /\ wasPlaying_ = FALSE
    /\ transportRecording_ = FALSE
    /\ captured = <<>>

\* The backend's answers in the job state machine: pending, success with
\* and without a result URL, and a failure with and without a message.
JobPolls == {TaskStatus("PENDING", "", FALSE), TaskStatus("SUCCESS", "", TRUE),
             TaskStatus("SUCCESS", "", FALSE), TaskStatus("failed", "", FALSE),
             TaskStatus("failed", "backend message", FALSE)}
JobEnv == Env(BOOLEAN, BOOLEAN, BOOLEAN, JobPolls, {NoBytes, Garbage, DecodedWav})

\* One job at a time: the user starts a call that goes on to its exchange
\* only after the previous job's worker has returned.  The calls that return
\* at once (a busy state_, no segment) come at any time.
OneAtATime == tpc'["msg"] = "cas" => Alive = {}

Next ==
    \/ \E x \in Typed : startGenerate("msg", x[1], x[2]) /\ OneAtATime
    \/ \E x \in Typed : startUploadCover("msg", x[1], x[2]) /\ OneAtATime
    \/ \E x \in Typed : startAddVocals("msg", x[1], x[2]) /\ OneAtATime
    \/ startTestApi("msg") /\ OneAtATime
    \/ CompareExchange("msg")
    \/ SpawnWorker("msg")
    \/ \E w \in Workers : Worker(w, JobEnv)
    \/ Handler
    \/ \E i \in 0..(MaxSegments - 1) : removeSegment(i)

Spec == InitJobs /\ [][Next]_vars

\* Two jobs at once: the constructor's state, a backend that answers every
\* call with success, and a user who sets the key and clicks Generate, Test
\* API, Cover and Add Vocals with nothing recorded.
PairPoll == TaskStatus("SUCCESS", "", TRUE)

NextPair ==
    \/ \E x \in Typed : startGenerate("msg", x[1], x[2])
    \/ \E x \in Typed : startUploadCover("msg", x[1], x[2])
    \/ \E x \in Typed : startAddVocals("msg", x[1], x[2])
    \/ startTestApi("msg")
    \/ CompareExchange("msg")
    \/ SpawnWorker("msg")
    \/ \E w \in Workers : WorkerStart(w)
    \/ \E w \in Workers : WorkerProbe(w, TRUE)
    \/ \E w \in Workers : WorkerSubmit(w, TRUE)
    \/ \E w \in Workers : WorkerPoll(w, PairPoll)
    \/ \E w \in Workers : WorkerFetch(w, DecodedWav)
    \/ Handler
    \/ setApiKey("k", TRUE)

SpecPair == Init /\ [][NextPair]_vars

\* Two callers: the message thread and a second thread call startGenerate
\* and startTestApi with no key set, so that every worker fails at once.
NextRace ==
    \/ \E t \in Threads : startGenerate(t, IF t = "msg" THEN "p1" ELSE "p2", "")
    \/ \E t \in Threads : startTestApi(t)
    \/ \E t \in Threads : CompareExchange(t)
    \/ \E t \in Threads : SpawnWorker(t)
    \/ \E w \in Workers : WorkerStart(w)

SpecRace == Init /\ [][NextRace]_vars

\* Playback: jobs that all succeed hand their audio to the message thread
\* while the host, its transport stopped, calls processBlock with silent
\* blocks of one to MaxBlock frames.
Silence(n) == [i \in 1..n |-> <<0, 0>>]

AudioThread ==
    \/ \E n \in 1..MaxBlock : processBlock(FALSE, 2, Silence(n))
    \/ DrainExchange
    \/ DrainLoadFrames
    \/ DrainLoadIndex
    \/ DrainCopy
    \/ DrainRead

InitPlay == InitProcessor /\ apiKey_ = "k" /\ InitStore

NextPlay ==
    \/ \E x \in Typed : startGenerate("msg", x[1], x[2]) /\ OneAtATime
    \/ CompareExchange("msg")
    \/ SpawnWorker("msg")
    \/ \E w \in Workers : WorkerStart(w)
    \/ \E w \in Workers : WorkerProbe(w, TRUE)
    \/ \E w \in Workers : WorkerSubmit(w, TRUE)
    \/ \E w \in Workers : WorkerPoll(w, PairPoll)
    \/ \E w \in Workers : WorkerFetch(w, DecodedWav)
    \/ Handler
    \/ AudioThread

SpecPlay == InitPlay /\ [][NextPlay]_vars

\* Staging: jobs that always succeed fetch payloads of several lengths,
\* rates and channel counts, or undecodable ones, and the host changes its
\* rate between jobs.  The audio thread is between callbacks throughout;
\* the processor is fresh, or has staged one result and played its first
\* frame (a state SpecPlay reaches).  Rates are in units of 22050 Hz.
HostRates == {1, 2, 4}

MonoWav == WavBytes(1, 2, <<<<4>>, <<8>>, <<12>>>>)
LongWav == WavBytes(2, 2, <<<<4, 8>>, <<8, 4>>, <<12, 16>>, <<16, 12>>, <<20, 24>>>>)
SlowWav == WavBytes(2, 1, <<<<4, 8>>, <<8, 4>>>>)
EmptyWav == WavBytes(2, 2, <<>>)

StageFetches == {Garbage, EmptyWav, MonoWav, LongWav, SlowWav}

\* The processor after one generate job delivered DecodedWav, the handler
\* staged it, and a one-frame callback drained it into the ring and played
\* its first frame.
PlayedOnce ==
    /\ LocksFree
    /\ backendStatus = NoTask
    /\ jobSegment = <<>>
    /\ library = {}
    /\ state_ = "Succeeded"
    /\ statusText_ = "Generated - playing."
    /\ lastError_ = ""
    /\ connected_ = TRUE
    /\ apiKey_ = "k"
    /\ jobPrompt_ = "p1"
    /\ jobTitle_ = "aceforge_suno"
    /\ jobIsCover_ = FALSE
    /\ jobIsAddVocals_ = FALSE
    /\ jobSegmentIndex_ = -1
    /\ tpc = [t \in Threads |-> "idle"]
    /\ texpected = [t \in Threads |-> "Idle"]
    /\ targs = [t \in Threads |-> [kind |-> "none", prompt |-> "", title |-> ""]]
    /\ tsegIdx = [t \in Threads |-> -1]
    /\ traced = [t \in Threads |-> FALSE]
    /\ wpc = [w \in Workers |-> "none"]
    /\ wkind = [w \in Workers |-> "none"]
    /\ wwav = [w \in Workers |-> NoBytes]
    /\ wcalls = [w \in Workers |-> ZeroCalls]
    /\ pendingWavBytes_ = NoBytes
    /\ pendingPrompt_ = "p1"
    /\ pendingIsTest_ = FALSE
    /\ asyncPending = FALSE
    /\ hWav = NoBytes
    /\ hPrompt = ""
    /\ hIsTest = FALSE
    /\ hOut = <<>>
    /\ hWriteIdx = 0
    /\ sampleRate_ = kDefaultRate
    /\ pendingPlaybackBuffer_ = (0 :> <<4, 8, 8, 4>> @@ 1 :> <<>>)
    /\ pendingPlaybackFrames_ = 2
    /\ pendingPlaybackBufferIndex_ = 0
    /\ nextWriteIndex_ = 1
    /\ pendingPlaybackReady_ = FALSE
    /\ playbackBuffer_ = <<4, 8, 8, 4, 0, 0, 0, 0>>
    /\ fifoStart = 1
    /\ fifoEnd = 2
    /\ apc = "idle"
    /\ aNumSamples = 1
    /\ aN = 2
    /\ aBufIdx = 0
    /\ aSnap = <<>>
    /\ aRace = FALSE
    /\ aOut = <<<<4, 8>>>>
    /\ InitStore

InitStage == (InitProcessor /\ apiKey_ = "k" /\ InitStore) \/ PlayedOnce

NextStage ==
    \/ \E x \in Typed : startGenerate("msg", x[1], x[2]) /\ OneAtATime
    \/ CompareExchange("msg")
    \/ SpawnWorker("msg")
    \/ \E w \in Workers : WorkerStart(w)
    \/ \E w \in Workers : WorkerProbe(w, TRUE)
    \/ \E w \in Workers : WorkerSubmit(w, TRUE)
    \/ \E w \in Workers : WorkerPoll(w, PairPoll)
    \/ \E w \in Workers, bytes \in StageFetches : WorkerFetch(w, bytes)
    \/ Handler
    \/ \E r \in HostRates : prepareToPlay(r)

SpecStage == InitStage /\ [][NextStage]_vars

\* Recording and trimming: the host plays and stops over one-frame blocks,
\* which captures segments, and the user trims and removes them.  The trim
\* offsets run from below zero to past the longest capture.
TrimOffsets == (0 - 1)..(MaxCaptureFrames + 1)

NextSeg ==
    \/ \E isPlaying \in BOOLEAN, numCh \in {1, 2} :
          processBlock(isPlaying, numCh, <<<<4, 8>>>>)
    \/ DrainExchange
    \/ DrainRead
    \/ \E i \in 0..(MaxSegments - 1), a \in TrimOffsets, b \in TrimOffsets :
          setSegmentTrim(i, a, b)
    \/ \E i \in 0..(MaxSegments - 1) : removeSegment(i)
    \/ clearAllSegments

SpecSeg == Init /\ [][NextSeg]_vars

\* Recording: the host plays and stops over one-frame blocks of a rising
\* ramp that restarts with the transport, with one or two input channels,
\* and the user removes segments and clears the store.
RampBlock ==
    LET k == IF wasPlaying_ THEN Len(captured) \div 2 ELSE 0
    IN <<<<4 * k + 4, 4 * k + 8>>>>

NextRec ==
    \/ \E isPlaying \in BOOLEAN, numCh \in {1, 2} :
          processBlock(isPlaying, numCh, RampBlock)
    \/ DrainExchange
    \/ DrainRead
    \/ \E i \in 0..(MaxSegments - 1) : removeSegment(i)
    \/ clearAllSegments

SpecRec == Init /\ [][NextRec]_vars

\* Selection: recording as in SpecRec, and the user also trims the first
\* segment.
NextSel ==
    \/ \E isPlaying \in BOOLEAN, numCh \in {1, 2} :
          processBlock(isPlaying, numCh, RampBlock)
    \/ DrainExchange
    \/ DrainRead
    \/ \E a \in 0..kMinFrames, b \in 0..MaxCaptureFrames : setSegmentTrim(0, a, b)
    \/ \E i \in 0..(MaxSegments - 1) : removeSegment(i)
    \/ clearAllSegments

SpecSel == Init /\ [][NextSel]_vars

\* Polling: generate and test jobs whose probe and submit succeed poll a
\* backend that answers any of the status texts, with or without an error
\* message and a result URL, and fetch a result or nothing.
NextPoll ==
    \/ \E x \in Typed : startGenerate("msg", x[1], x[2]) /\ OneAtATime
    \/ startTestApi("msg") /\ OneAtATime
    \/ CompareExchange("msg")
    \/ SpawnWorker("msg")
    \/ \E w \in Workers : WorkerStart(w)
    \/ \E w \in Workers : WorkerProbe(w, TRUE)
    \/ \E w \in Workers : WorkerSubmit(w, TRUE)
    \/ \E w \in Workers, st \in AllPolls : WorkerPoll(w, st)
    \/ \E w \in Workers, bytes \in {NoBytes, DecodedWav} : WorkerFetch(w, bytes)
    \/ Handler

SpecPoll == InitPlay /\ [][NextPoll]_vars

\* Cover and add-vocals jobs over a trimmed store: the user trims the first
\* segment, removes segments and triggers jobs from the selected one; the backend
\* answers the probe, the upload and the submit either way, then a success
\* and a result.
CoverEnv == Env(BOOLEAN, BOOLEAN, BOOLEAN, {TaskStatus("SUCCESS", "", TRUE)}, {DecodedWav})

NextCover ==
    \/ \E x \in Typed : startUploadCover("msg", x[1], x[2]) /\ OneAtATime
    \/ \E x \in Typed : startAddVocals("msg", x[1], x[2]) /\ OneAtATime
    \/ CompareExchange("msg")
    \/ SpawnWorker("msg")
    \/ \E w \in Workers : Worker(w, CoverEnv)
    \/ Handler
    \/ \E a \in 0..kMinFrames, b \in 0..MaxCaptureFrames : setSegmentTrim(0, a, b)
    \/ \E i \in 0..(MaxSegments - 1) : removeSegment(i)

SpecCover == InitJobs /\ [][NextCover]_vars

\* Credentials: the user types keys, the host restores saved state, and
\* generate jobs run against a backend that answers the probe and the submit
\* either way, then a success and a result.
NextKey ==
    \/ \E key \in Keys, ok \in BOOLEAN : setApiKey(key, ok)
    \/ \E data \in SavedStates, ok \in BOOLEAN : setStateInformation(data, ok)
    \/ \E x \in Typed : startGenerate("msg", x[1], x[2]) /\ OneAtATime
    \/ CompareExchange("msg")
    \/ SpawnWorker("msg")
    \/ \E w \in Workers : WorkerStart(w)
    \/ \E w \in Workers, ok \in BOOLEAN : WorkerProbe(w, ok)
    \/ \E w \in Workers, ok \in BOOLEAN : WorkerSubmit(w, ok)
    \/ \E w \in Workers : WorkerPoll(w, TaskStatus("SUCCESS", "", TRUE))
    \/ \E w \in Workers : WorkerFetch(w, DecodedWav)
    \/ Handler

SpecKey == Init /\ [][NextKey]_vars

\* Locking: the audio thread, the message thread and a worker thread each
\* run the functions that take locks, in any order and interleaving.
NextLock ==
    \/ \E t \in LockThreads : LockCall(t)
    \/ \E t \in LockThreads : enter(t)
    \/ \E t \in LockThreads : exit(t)

SpecLock == Init /\ [][NextLock]_vars

\* ------------------------------------------------------------ properties
\* A call of one of the four trigger functions by the message thread, up to
\* its return or its load of state_.
TriggerCall ==
    \/ \E x \in Typed : startGenerate("msg", x[1], x[2])
    \/ \E x \in Typed : startUploadCover("msg", x[1], x[2])
    \/ \E x \in Typed : startAddVocals("msg", x[1], x[2])
    \/ startTestApi("msg")

\* C1: a trigger call made while state_ is Submitting or Running changes
\* nothing: state_, the status text and the error text stay as they are, the
\* call does not go on to the exchange and no worker is spawned.
C1_BusyTriggerIsNoOp ==
    [][(state_ \in Busy /\ TriggerCall)
          => UNCHANGED <<state_, statusText_, lastError_, tpc, wpc>>]_vars

\* C2: at most one worker thread is alive in every reachable state.
C2_OneWorkerAlive == Cardinality(Alive) <= 1

\* C3: of two trigger calls that run at the same time, one wins the
\* exchange: a call does not win once another call has won since it loaded
\* state_, so it spawns no worker and writes no job parameters.
C3_OneCallWins ==
    [][\A t \in Threads :
          (CompareExchange(t) /\ tpc'[t] = "spawn") => ~traced[t]]_vars

\* C4: a worker deposits into pendingWavBytes_ only when the slot is empty.
C4_DepositIntoEmptySlot ==
    [][(\E w \in Workers : \E bytes \in {Garbage, DecodedWav} : WorkerFetch(w, bytes))
          => pendingWavBytes_ = NoBytes]_vars

\* C5: handleAsyncUpdate takes the payload and clears the slot in the same
\* step, nothing else hands the handler a payload, and a run that finds the
\* slot empty changes neither state_, nor the texts, nor the staging buffers.
C5_TakeOnceOrNothing ==
    [][/\ (handleAsyncUpdate /\ pendingWavBytes_ # NoBytes)
             => (hWav' = pendingWavBytes_ /\ pendingWavBytes_' = NoBytes)
       /\ (hWav' # hWav /\ hWav' # NoBytes)
             => (handleAsyncUpdate /\ pendingWavBytes_ = hWav' /\ pendingWavBytes_' = NoBytes)
       /\ (handleAsyncUpdate /\ pendingWavBytes_ = NoBytes)
             => UNCHANGED <<state_, statusText_, lastError_, stageVars, mailVars,
                            handlerVars, tpc>>]_vars

\* C5 witness: the handler has just taken a payload and left the slot empty.
C5_Taken == tpc["msg"] = "h_decode" /\ hWav = DecodedWav /\ pendingWavBytes_ = NoBytes

\* C6: while the audio thread copies out of pendingPlaybackBuffer_[bufIdx],
\* the producer is not between its resize and the end of its write of that
\* same buffer.
C6_NoWriteDuringCopy ==
    ~(apc = "copy" /\ tpc["msg"] = "h_write" /\ hWriteIdx = aBufIdx)

\* C7: state_ changes only from a non-busy state to Submitting, from
\* Submitting to Running or Failed, and from Running to Succeeded or Failed
\* (and from Idle to Failed, when a trigger is refused before any job).
C7_StateOrder ==
    [][state_' # state_
          => \/ state_ \notin Busy /\ state_' = "Submitting"
             \/ state_ = "Idle" /\ state_' = "Failed"
             \/ state_ = "Submitting" /\ state_' \in {"Running", "Failed"}
             \/ state_ = "Running" /\ state_' \in {"Succeeded", "Failed"}]_vars

\* C8: every step that fails a job leaves state_ at Failed with the status
\* text equal to the error text.
C8_FailedShowsError ==
    [][(state_' = "Failed" /\ (state_ # "Failed" \/ lastError_' # lastError_))
          => statusText_' = lastError_']_vars

\* C9: every stored segment has 0 <= trimStart <= effectiveEnd <= totalFrames.
C9_TrimInRange ==
    \A i \in 1..Len(segments_) :
        /\ 0 <= segments_[i].trimStartSamples
        /\ segments_[i].trimStartSamples <= EffectiveEnd(segments_[i])
        /\ EffectiveEnd(segments_[i]) <= TotalFrames(segments_[i])

\* C10: a generate worker that finds no key stores Failed and "No API key"
\* and returns having made no collaborator call.
C10_NoKeyFailsAtOnce ==
    [][\A w \in Workers :
          (wpc[w] = "start" /\ wkind[w] = "generate" /\ apiKey_ = "" /\ wpc'[w] # "start")
             => /\ state_' = "Failed"
                /\ statusText_' = "No API key"
                /\ lastError_' = "No API key"
                /\ wpc'[w] = "none"
                /\ wcalls[w] = ZeroCalls /\ wcalls'[w] = ZeroCalls]_vars

\* C10 witness: a generate job has failed for want of a key.
C10_FailedNoKey ==
    /\ state_ = "Failed" /\ statusText_ = "No API key" /\ apiKey_ = ""
    /\ jobPrompt_ = "p1" /\ ~jobIsCover_ /\ ~jobIsAddVocals_
    /\ \A w \in Workers : wpc[w] = "none"

\* The transport goes from playing to stopped in this step.
FallingEdge == wasPlaying_ /\ ~wasPlaying_'

\* C11: when the transport stops and fewer than the minimum number of stereo
\* frames were captured since it started, no segment is added, the store and
\* the selected index are unchanged, and the in-progress buffer is emptied.
C11_ShortCaptureDiscarded ==
    [][(FallingEdge /\ Len(captured) < 2 * kMinFrames) =>
           /\ segments_' = segments_
           /\ selectedSegmentIndex_' = selectedSegmentIndex_
           /\ currentSegmentBuffer_' = <<>>]_vars

\* A stop has just discarded a one-frame capture.
C11_Discarded ==
    /\ apc = "exchange"
    /\ ~wasPlaying_
    /\ Len(captured) = 2
    /\ currentSegmentBuffer_ = <<>>
    /\ segments_ = <<>>
    /\ selectedSegmentIndex_ = -1

\* The store after one segment holding buf was appended at its end and selected.
AppendedAndSelected(buf) ==
    /\ Len(segments_') = Len(segments_) + 1
    /\ SubSeq(segments_', 1, Len(segments_)) = segments_
    /\ segments_'[Len(segments_')].buffer = buf
    /\ segments_'[Len(segments_')].trimStartSamples = 0
    /\ segments_'[Len(segments_')].trimEndSamples = 0
    /\ selectedSegmentIndex_' = Len(segments_)

\* C12 (as stated): when the transport stops and at least the minimum number
\* of frames were captured since it started, exactly one segment is appended
\* at the end of the store and selected, with both trims 0 and with exactly
\* the frames appended since the rising edge, in order.
C12_CommitsCapturedFrames ==
    [][(FallingEdge /\ Len(captured) >= 2 * kMinFrames) =>
           AppendedAndSelected(captured)]_vars

\* C12 (amended): when the transport stops and the in-progress buffer holds at
\* least the minimum number of frames, exactly one segment is appended at the
\* end of the store and selected, with both trims 0 and with exactly the
\* contents of the in-progress buffer, in order.
C12_CommitsBufferedFrames ==
    [][(FallingEdge /\ Len(currentSegmentBuffer_) >= 2 * kMinFrames) =>
           AppendedAndSelected(currentSegmentBuffer_)]_vars

\* A stop has just committed a second segment holding the whole capture.
C12_Committed ==
    /\ apc = "exchange"
    /\ ~wasPlaying_
    /\ Len(segments_) = 2
    /\ selectedSegmentIndex_ = 1
    /\ Len(captured) >= 2 * kMinFrames
    /\ segments_[2].buffer = captured

\* playbackFifo_.getNumReady(): the frames written to the ring and not yet read.
NumReady == (fifoEnd - fifoStart + kPlaybackFifoFrames) % kPlaybackFifoFrames

\* The j-th (from 0) unread frame of the ring.
RingFrame(j) ==
    LET f == (fifoStart + j) % kPlaybackFifoFrames
    IN <<playbackBuffer_[2 * f + 1], playbackBuffer_[2 * f + 2]>>

\* C13: a callback of n frames outputs the next k <= n frames of the ring,
\* k being the number of frames available, followed by n - k frames of
\* silence, and consumes exactly those k frames; so it never outputs a frame
\* beyond the staged ones, and once they are exhausted the output is zero.
C13_DrainThenSilence ==
    [][(apc = "read" /\ apc' = "idle") =>
           LET n == aNumSamples
               k == Min(n, NumReady)
           IN /\ aOut' = [i \in 1..n |-> IF i <= k THEN RingFrame(i - 1) ELSE <<0, 0>>]
              /\ NumReady' = NumReady - k
              /\ playbackBuffer_' = playbackBuffer_]_vars

\* A two-frame callback has output the last staged frame and then silence.
C13_Underrun ==
    /\ apc = "idle"
    /\ aOut = <<<<8, 4>>, <<0, 0>>>>
    /\ NumReady = 0

\* The handler decodes the taken payload and calls pushSamplesToPlayback, up
\* to its return or the resize of the write buffer.
DecodeStep == tpc["msg"] = "h_decode" /\ tpc'["msg"] # "h_decode"

\* The handler publishes the staged buffer and returns.
PublishStep == tpc["msg"] = "h_ready" /\ tpc'["msg"] = "idle"

\* The taken payload decodes to at least one frame.
Decodable == hWav.what = "wav" /\ Len(hWav.frames) > 0 /\ hWav.ch > 0 /\ hWav.rate > 0

\* round(N * H / S) exceeds the capacity: N * H / S >= kPlaybackFifoFrames + 1/2.
Oversized ==
    /\ Decodable
    /\ 2 * Len(hWav.frames) * sampleRate_ >= (2 * kPlaybackFifoFrames + 1) * hWav.rate

\* round(N * H / S) lies between 1 and the capacity.
Fits ==
    /\ Decodable
    /\ 2 * Len(hWav.frames) * sampleRate_ >= hWav.rate
    /\ 2 * Len(hWav.frames) * sampleRate_ < (2 * kPlaybackFifoFrames + 1) * hWav.rate

PlayingTexts == {"Generated - playing.", "API test passed - audio received and playing."}

\* C14: a conversion whose output frame count exceeds kPlaybackFifoFrames is
\* dropped (no staging buffer is published, the ready flag is not set) and
\* reported: the job does not end Succeeded with a "playing" status text.
C14_OversizedReported ==
    [][(DecodeStep /\ Oversized) =>
           /\ UNCHANGED stageVars
           /\ ~(state_' = "Succeeded" /\ statusText_' \in PlayingTexts)]_vars

\* C15: a decode failure, or an oversized resample request, leaves the ready
\* flag, the published frame count and buffer index, both staging buffers,
\* and the ring's contents and read position as they were, and ends the
\* handling of that result.
C15_FailureLeavesPlayback ==
    [][(DecodeStep /\ (~Decodable \/ Oversized)) =>
           /\ pendingPlaybackReady_' = pendingPlaybackReady_
           /\ pendingPlaybackFrames_' = pendingPlaybackFrames_
           /\ pendingPlaybackBufferIndex_' = pendingPlaybackBufferIndex_
           /\ pendingPlaybackBuffer_' = pendingPlaybackBuffer_
           /\ playbackBuffer_' = playbackBuffer_
           /\ fifoStart' = fifoStart
           /\ tpc'["msg"] = "idle"]_vars

\* An undecodable result was handled while the ring held an unread frame of
\* the result staged before.
C15_FailedWhilePlaying ==
    /\ tpc["msg"] = "idle"
    /\ state_ = "Failed"
    /\ statusText_ = "Failed to decode WAV"
    /\ pendingPlaybackFrames_ = 2
    /\ pendingPlaybackBuffer_[pendingPlaybackBufferIndex_] = <<4, 8, 8, 4>>
    /\ NumReady = 1

\* The published staging buffer.
Published == pendingPlaybackBuffer_[pendingPlaybackBufferIndex_]

\* C16: staging N frames whose rate equals the host rate publishes exactly N
\* frames, each equal to the input frame at the same index on both channels,
\* a mono source being duplicated to left and right.
C16_RatioOneIsIdentity ==
    [][(Fits /\ hWav.rate = sampleRate_) =>
           /\ DecodeStep => tpc'["msg"] = "h_write"
           /\ PublishStep =>
                 /\ pendingPlaybackReady_'
                 /\ pendingPlaybackFrames_' = Len(hWav.frames)
                 /\ Len(Published') = 2 * Len(hWav.frames)
                 /\ \A i \in 1..Len(hWav.frames) :
                       /\ Published'[2 * i - 1] = hWav.frames[i][1]
                       /\ Published'[2 * i] = (IF hWav.ch >= 2 THEN hWav.frames[i][2]
                                               ELSE hWav.frames[i][1])]_vars

\* The three frames of a mono result are published at the host's rate.
C16_MonoPublished ==
    /\ tpc["msg"] = "idle"
    /\ state_ = "Succeeded"
    /\ sampleRate_ = 2
    /\ pendingPlaybackReady_
    /\ pendingPlaybackFrames_ = 3
    /\ Published = <<4, 4, 8, 8, 12, 12>>

\* C17: for a result of N frames at rate S and a host rate H # S, the
\* published frame count is round(N * H / S) whenever that lies between 1
\* and the capacity, and output frame i is interpolated linearly, at the
\* fraction of i * S / H, between source frame floor(i * S / H) and the
\* frame after it, both clamped to N - 1.
C17_ResampledCountAndFrames ==
    [][(Fits /\ hWav.rate # sampleRate_) =>
           /\ DecodeStep => tpc'["msg"] = "h_write"
           /\ PublishStep =>
                 LET N == Len(hWav.frames)
                     S == hWav.rate
                     H == sampleRate_
                     R == pendingPlaybackFrames_'
                     Src(j, c) == hWav.frames[j + 1][IF hWav.ch >= 2 THEN c ELSE 1]
                 IN /\ pendingPlaybackReady_'
                    /\ 2 * S * R <= 2 * N * H + S
                    /\ 2 * N * H + S < 2 * S * (R + 1)
                    /\ Len(Published') = 2 * R
                    /\ \A i \in 0..(R - 1), c \in {1, 2} :
                          LET i0 == Min((i * S) \div H, N - 1)
                              i1 == Min(i0 + 1, N - 1)
                              r == (i * S) % H
                          IN Published'[2 * i + c] * H = Src(i0, c) * (H - r) + Src(i1, c) * r]_vars

\* Two frames at half the host's rate are published as four frames, the
\* second halfway between the two and the last clamped to the final frame.
C17_Upsampled ==
    /\ tpc["msg"] = "idle"
    /\ state_ = "Succeeded"
    /\ sampleRate_ = 2
    /\ pendingPlaybackReady_
    /\ pendingPlaybackFrames_ = 4
    /\ Published = <<4, 8, 6, 6, 8, 4, 8, 4>>

\* C18: removeSegment(index) with a valid index removes exactly that segment;
\* a selected index greater than index decreases by one, one equal to index
\* becomes -1, a smaller one is unchanged, so that a selection that remains
\* points at the same segment; with an out-of-range index nothing changes.
C18_RemoveAdjustsSelection ==
    [][\A index \in 0..(MaxSegments - 1) :
          removeSegment(index) =>
             LET n == Len(segments_)
                 sel == selectedSegmentIndex_
             IN IF index >= n
                THEN UNCHANGED vars
                ELSE /\ Len(segments_') = n - 1
                     /\ \A k \in 1..(n - 1) :
                           segments_'[k] = (IF k <= index THEN segments_[k]
                                            ELSE segments_[k + 1])
                     /\ sel > index => selectedSegmentIndex_' = sel - 1
                     /\ sel = index => selectedSegmentIndex_' = -1
                     /\ sel < index => selectedSegmentIndex_' = sel
                     /\ (sel >= 0 /\ sel # index) =>
                           segments_'[selectedSegmentIndex_' + 1] = segments_[sel + 1]
                     /\ UNCHANGED <<currentSegmentBuffer_, wasPlaying_, transportRecording_>>]_vars

\* The selected one of two segments was removed: one segment is left and
\* none is selected.
C18_SelectedRemoved ==
    /\ tpc["msg"] = "idle"
    /\ Len(segments_) = 1
    /\ selectedSegmentIndex_ = -1

\* C19: the audio thread acquires only the segment-store lock: it is never
\* inside, and never about to enter, the status-text lock or the mailbox lock.
C19_AudioTakesOnlySegmentLock ==
    /\ Held("audio") \subseteq {"segmentLock_"}
    /\ Wanted("audio") \subseteq {"segmentLock_"}

\* The audio thread is inside segmentLock_ while the message thread and the
\* worker are inside the other two locks.
C19_AudioInsideSegmentLock ==
    /\ lockOwner["segmentLock_"] = "audio"
    /\ lockOwner["statusLock_"] = "msg"
    /\ lockOwner["pendingWavLock_"] = "worker"

\* C20: the three locks never deadlock: no thread is about to enter one lock
\* while inside another, and some thread can always go on.
C20_NoHoldAndWait ==
    /\ \A t \in LockThreads : Wanted(t) # {} => Held(t) = {}
    /\ \E t \in LockThreads :
          \/ Wanted(t) = {}
          \/ \E l \in Wanted(t) : lockOwner[l] = "none"

\* All three threads contend for segmentLock_: the audio thread is inside
\* and the message thread and the worker wait for it, holding nothing.
C20_Contended ==
    /\ lockOwner["segmentLock_"] = "audio"
    /\ Wanted("msg") = {"segmentLock_"}
    /\ Wanted("worker") = {"segmentLock_"}
    /\ Held("msg") = {}
    /\ Held("worker") = {}

\* C21: for every job kind, state_ becomes Running only in the step in which
\* the submit call returns a task identifier, and a worker whose upload or
\* submit fails returns while state_ is still Submitting.
C21_RunningOnlyAfterSubmit ==
    [][/\ (state_' = "Running" /\ state_ # "Running") =>
              \E w \in Workers : wpc[w] = "submit" /\ wpc'[w] = "poll"
       /\ \A w \in Workers :
              (wpc[w] \in {"upload", "submit"} /\ wpc'[w] = "none") =>
                  state_ = "Submitting"]_vars

\* A status text in lower case.
LowerChars(name) == [i \in 1..Len(StatusChars(name)) |-> ToLower(StatusChars(name)[i])]

\* The patterns as stated: "success", and "fail" or "error", in any letter case.
MatchesSuccess(name) == contains(LowerChars(name), <<"s","u","c","c","e","s","s">>)
MatchesFailure(name) ==
    \/ contains(LowerChars(name), <<"f","a","i","l">>)
    \/ contains(LowerChars(name), <<"e","r","r","o","r">>)

\* C22: a polled status that contains "fail" or "error" in any letter case
\* (and no "success") ends the polling loop and the job in Failed with the
\* backend's message.
C22_FailurePatternAnyCase ==
    [][\A w \in Workers, st \in AllPolls :
          (WorkerPoll(w, st) /\ MatchesFailure(st.status) /\ ~MatchesSuccess(st.status)) =>
              /\ wpc'[w] = "none"
              /\ state_' = "Failed"
              /\ lastError_' = (IF st.errorMessage = "" THEN st.status ELSE st.errorMessage)]_vars

\* C23: a polled status that matches both patterns and carries a result URL
\* is a success: the worker goes on to fetch the result and the job does not
\* fail.
C23_SuccessCheckedFirst ==
    [][\A w \in Workers, st \in AllPolls :
          (WorkerPoll(w, st) /\ MatchesSuccess(st.status) /\ MatchesFailure(st.status)
             /\ st.urls) =>
              /\ wpc'[w] = "fetch"
              /\ state_' = state_]_vars

\* C24: a polled status that matches neither pattern, the empty status of a
\* failed request included, leaves the worker polling, state_ and the texts
\* as they were and the mailbox untouched: no number of such answers fails
\* the job.
C24_PollsUntilTerminal ==
    [][\A w \in Workers, st \in AllPolls :
          (WorkerPoll(w, st) /\ ~MatchesSuccess(st.status) /\ ~MatchesFailure(st.status)) =>
              /\ wpc'[w] = "poll"
              /\ state_' = state_
              /\ UNCHANGED <<statusText_, lastError_, mailVars>>]_vars

\* A worker has polled MaxPolls times without a terminal answer and is
\* still polling a running job.
C24_StillPolling ==
    \E w \in Workers :
       /\ wpc[w] = "poll"
       /\ wcalls[w].poll = MaxPolls
       /\ wcalls[w].fetch = 0
       /\ state_ = "Running"
       /\ pendingWavBytes_ = NoBytes

Decoding == tpc["msg"] \in {"h_decode", "h_write", "h_index", "h_ready"}

\* C26: from the deposit of a result until the consumer has finished with
\* it, state_ stays Running: while a payload lies in the mailbox or is being
\* decoded and state_ is Running, a step leaves state_ Running unless it is
\* the consumer's last step; and Succeeded is written only by that last
\* step, after pushSamplesToPlayback has returned, never by a worker.
C26_RunningUntilDecoded ==
    [][/\ (pendingWavBytes_ # NoBytes \/ Decoding) /\ state_ = "Running"
              => state_' = "Running" \/ (Decoding /\ tpc'["msg"] = "idle")
       /\ state_' = "Succeeded" /\ state_ # "Succeeded"
              => /\ tpc["msg"] \in {"h_decode", "h_ready"}
                 /\ tpc'["msg"] = "idle"
                 /\ DecodeError(hWav) = ""
                 /\ wpc' = wpc]_vars

\* C27: in every job kind a failed connectivity probe ends the job: state_
\* is Failed, the connected flag is false, the worker returns, and it has made
\* no upload, submit, poll or fetch call; a probe that succeeds sets the
\* connected flag and the worker goes on.
C27_ProbeGatesTheJob ==
    [][\A w \in Workers :
          /\ WorkerProbe(w, FALSE)
                => /\ state_' = "Failed"
                   /\ ~connected_'
                   /\ statusText_' = ProbeFailText(wkind[w])
                   /\ wpc'[w] = "none"
                   /\ \A c \in {"upload", "submit", "poll", "fetch"} :
                          wcalls[w][c] = 0 /\ wcalls'[w][c] = 0
          /\ WorkerProbe(w, TRUE)
                => connected_' /\ wpc'[w] \in {"encode", "submit"}]_vars

\* A probe has failed after an earlier job's probe had set the flag.
C27_ProbeFailedLater ==
    /\ state_ = "Failed"
    /\ ~connected_
    /\ statusText_ = ProbeFailText("cover")
    /\ Alive = {}
    /\ pendingPlaybackReady_

\* The selected segment, where the selection names one.
SelectedSegment == segments_[selectedSegmentIndex_ + 1]
NothingSelected == selectedSegmentIndex_ < 0 \/ selectedSegmentIndex_ >= Len(segments_)
ShortSpan ==
    /\ ~NothingSelected
    /\ EffectiveEnd(SelectedSegment) - SelectedSegment.trimStartSamples < kMinFrames
SegmentTexts ==
    {"Select a recorded segment first (DAW Play then Stop to capture).",
     "Select a recorded segment first (DAW Play then Stop to capture instrumental)."}

\* C28: a cover or add-vocals trigger made while state_ is Idle, Succeeded
\* or Failed, with no segment selected or with a selected segment whose
\* trimmed span is under the minimum, ends in Failed with its reason as the
\* status text and the last error; the call returns without an exchange, no
\* worker is spawned and no collaborator call is counted.
C28_NoSegmentFailsAtOnce ==
    [][\A x \in Typed :
          /\ startUploadCover("msg", x[1], x[2]) \/ startAddVocals("msg", x[1], x[2])
          /\ state_ \notin Busy
          /\ NothingSelected \/ ShortSpan
          => /\ state_' = "Failed"
             /\ statusText_' \in SegmentTexts
             /\ lastError_' = statusText_'
             /\ tpc'["msg"] = "idle"
             /\ UNCHANGED <<workerVars, connected_>>]_vars

\* A trigger has been refused over a segment trimmed to under the minimum.
C28_RefusedShortSpan ==
    /\ state_ = "Failed"
    /\ statusText_ \in SegmentTexts
    /\ ShortSpan
    /\ TotalFrames(SelectedSegment) >= kMinFrames
    /\ Alive = {}

\* The order of a worker's positions in its thread function.
Rank(pc) ==
    CASE pc = "start" -> 0 [] pc = "probe" -> 1 [] pc = "encode" -> 2
      [] pc = "upload" -> 3 [] pc = "submit" -> 4 [] pc = "poll" -> 5
      [] pc = "fetch" -> 6 [] OTHER -> 7

C30_RestoreSetsConnected ==
    [][\A key \in Keys, ok \in BOOLEAN :
          setStateInformation(writeString(key), ok)
              => /\ apiKey_' = key
                 /\ connected_' = (key # "" /\ ok)]_vars

\* ---------------------------------------------------------------- liveness
\* The statuses that are terminal: those matching the success pattern or a
\* failure pattern in any letter case.
Verdicts == {st \in AllPolls : MatchesSuccess(st.status) \/ MatchesFailure(st.status)}

\* The backend settles the task a worker is polling: from now on
\* getTaskStatus answers st.
BackendSettles(st) ==
    /\ backendStatus = NoTask
    /\ \E w \in Workers : wpc[w] = "poll"
    /\ backendStatus' = st
    /\ UNCHANGED <<jobVars, paramVars, callerVars, workerVars, mailVars, asyncPending,
                   handlerVars, sampleRate_, stageVars, fifoVars, audioVars, segVars,
                   lockVars, jobSegment, library>>

\* The backend takes up the next task while no worker is alive.
BackendForgets ==
    /\ backendStatus # NoTask
    /\ Alive = {}
    /\ backendStatus' = NoTask
    /\ UNCHANGED <<jobVars, paramVars, callerVars, workerVars, mailVars, asyncPending,
                   handlerVars, sampleRate_, stageVars, fifoVars, audioVars, segVars,
                   lockVars, jobSegment, library>>

\* One turn of the polling loop against that backend.
LivePoll(w) == WorkerPoll(w, backendStatus)

\* Generate and test jobs against a backend that answers every call and
\* settles every task on some terminal status.
NextLive ==
    \/ \E x \in Typed : startGenerate("msg", x[1], x[2]) /\ OneAtATime
    \/ startTestApi("msg") /\ OneAtATime
    \/ CompareExchange("msg")
    \/ SpawnWorker("msg")
    \/ \E w \in Workers : WorkerStart(w)
    \/ \E w \in Workers, ok \in BOOLEAN : WorkerProbe(w, ok)
    \/ \E w \in Workers, ok \in BOOLEAN : WorkerSubmit(w, ok)
    \/ \E w \in Workers : LivePoll(w)
    \/ \E w \in Workers, bytes \in {NoBytes, DecodedWav} : WorkerFetch(w, bytes)
    \/ Handler
    \/ \E st \in Verdicts : BackendSettles(st)
    \/ BackendForgets

\* Every call returns, the threads are scheduled, and the backend settles.
Fairness ==
    /\ WF_vars(CompareExchange("msg") \/ SpawnWorker("msg"))
    /\ WF_vars(\E w \in Workers : WorkerStart(w))
    /\ WF_vars(\E w \in Workers, ok \in BOOLEAN : WorkerProbe(w, ok))
    /\ WF_vars(\E w \in Workers, ok \in BOOLEAN : WorkerSubmit(w, ok))
    /\ WF_vars(\E w \in Workers : LivePoll(w))
    /\ WF_vars(\E w \in Workers, bytes \in {NoBytes, DecodedWav} : WorkerFetch(w, bytes))
    /\ WF_vars(Handler)
    /\ WF_vars(\E st \in Verdicts : BackendSettles(st))

SpecLive == InitPlay /\ [][NextLive]_vars /\ Fairness

\* C31: every accepted job ends: from a state in which state_ is Submitting
\* or Running, a state follows in which state_ is Succeeded or Failed and no
\* worker thread is alive.
C31_JobEnds ==
    state_ \in Busy ~> (state_ \in {"Succeeded", "Failed"} /\ Alive = {})

\* ------------------------------------------------------- wakes and drains
\* The end of a worker in two steps.  First fetchAudio answers and, under
\* pendingWavLock_, the bytes and the prompt go into the slot.
WorkerDeposit(w, bytes) ==
    /\ wpc[w] = "fetch"
    /\ IF bytes = NoBytes
       THEN /\ WorkerFail(w, ClientLastError("fetch"), FALSE)
            /\ UNCHANGED mailVars
       ELSE /\ pendingWavBytes_' = bytes
            /\ pendingPrompt_' = (IF wkind[w] = "test" THEN "API test" ELSE jobPrompt_)
            /\ pendingIsTest_' = (IF wkind[w] = "test" THEN TRUE ELSE pendingIsTest_)
            /\ Goto(w, "wake", "fetch")
            /\ UNCHANGED <<state_, statusText_, lastError_, asyncPending, wwav>>
    /\ UNCHANGED connected_
    /\ UnchangedByWorker

\* A worker that returns without posting the wake.
WorkerWakeLost(w) ==
    /\ wpc[w] = "wake"
    /\ Return(w)
    /\ UNCHANGED <<state_, statusText_, lastError_, connected_, asyncPending, mailVars>>
    /\ UnchangedByWorker

\* Then triggerAsyncUpdate(); return;
WorkerWake(w) ==
    /\ wpc[w] = "wake"
    /\ asyncPending' = TRUE
    /\ Return(w)
    /\ UNCHANGED <<state_, statusText_, lastError_, connected_, mailVars>>
    /\ UnchangedByWorker

\* The message thread delivers the pending wake: the AsyncUpdater clears its
\* flag, so that wakes posted from now on are kept, and calls
\* handleAsyncUpdate.
DeliverWake ==
    /\ tpc["msg"] = "idle"
    /\ asyncPending
    /\ asyncPending' = FALSE
    /\ tpc' = [tpc EXCEPT !["msg"] = "h_enter"]
    /\ UNCHANGED <<mailVars, hWav, hPrompt, hIsTest>>
    /\ UnchangedByHandlerStart

\* handleAsyncUpdate's critical section under pendingWavLock_.
TakePayload ==
    /\ tpc["msg"] = "h_enter"
    /\ IF pendingWavBytes_ = NoBytes
       THEN /\ tpc' = [tpc EXCEPT !["msg"] = "idle"]
            /\ UNCHANGED <<mailVars, hWav, hPrompt, hIsTest>>
       ELSE /\ hWav' = pendingWavBytes_
            /\ pendingWavBytes_' = NoBytes
            /\ hPrompt' = pendingPrompt_
            /\ hIsTest' = pendingIsTest_
            /\ pendingIsTest_' = FALSE
            /\ pendingPrompt_' = pendingPrompt_
            /\ tpc' = [tpc EXCEPT !["msg"] = "h_decode"]
    /\ asyncPending' = asyncPending
    /\ UnchangedByHandlerStart

\* Generate and test jobs whose deposit, wake, delivery and drain are
\* separate steps, against a backend that answers every call.
NextWake ==
    \/ \E x \in Typed : startGenerate("msg", x[1], x[2]) /\ OneAtATime
    \/ startTestApi("msg") /\ OneAtATime
    \/ CompareExchange("msg")
    \/ SpawnWorker("msg")
    \/ \E w \in Workers : WorkerStart(w)
    \/ \E w \in Workers : WorkerProbe(w, TRUE)
    \/ \E w \in Workers : WorkerSubmit(w, TRUE)
    \/ \E w \in Workers : WorkerPoll(w, TaskStatus("SUCCESS", "", TRUE))
    \/ \E w \in Workers, bytes \in {NoBytes, Garbage, DecodedWav} : WorkerDeposit(w, bytes)
    \/ \E w \in Workers : WorkerWake(w)
    \/ DeliverWake
    \/ TakePayload
    \/ HandlerDecode
    \/ HandlerStoreFrames
    \/ HandlerStoreIndex
    \/ HandlerStoreReady

\* The worker and the message thread are scheduled.
WakeFairness ==
    /\ WF_vars(\E w \in Workers : WorkerWake(w))
    /\ WF_vars(CompareExchange("msg") \/ SpawnWorker("msg"))
    /\ WF_vars(DeliverWake)
    /\ WF_vars(TakePayload)
    /\ WF_vars(HandlerDecode \/ HandlerStoreFrames \/ HandlerStoreIndex \/ HandlerStoreReady)

SpecWake == InitPlay /\ [][NextWake]_vars /\ WakeFairness

\* C32: a deposited payload never lies in the slot without a wake: while the
\* slot is full, a wake is pending, or the worker is about to post it, or the
\* message thread has taken a wake and is about to look at the slot; and a
\* full slot is drained in the end.
C32_DepositIsDrained ==
    /\ [](pendingWavBytes_ # NoBytes
             => \/ asyncPending
                \/ tpc["msg"] = "h_enter"
                \/ \E w \in Workers : wpc[w] = "wake")
    /\ (pendingWavBytes_ # NoBytes ~> pendingWavBytes_ = NoBytes)

\* The wake posted for the Running status was delivered before the deposit,
\* and the deposit's own wake is not posted yet.
C32_DepositedBeforeWake ==
    /\ pendingWavBytes_ # NoBytes
    /\ ~asyncPending
    /\ tpc["msg"] = "idle"
    /\ \E w \in Workers : wpc[w] = "wake"

\* s is the end of t.
IsSuffix(s, t) == Len(s) <= Len(t) /\ s = SubSeq(t, Len(t) - Len(s) + 1, Len(t))

\* What every audio callback leaves behind, whatever the buffer holds: the
\* capturing flag is the callback's playing flag, a callback that is not
\* playing leaves the buffer empty, and one with fewer than two channels
\* appends nothing; and in every state the buffer is empty while the flag is
\* false.
CallbackKeepsFlag(isPlaying, numCh) ==
    /\ transportRecording_' = isPlaying
    /\ ~isPlaying => currentSegmentBuffer_' = <<>>
    /\ numCh < 2 => Len(currentSegmentBuffer_') <= Len(currentSegmentBuffer_)

\* C33 (as stated): after every audio callback the capturing flag is the
\* callback's playing flag, the in-progress buffer is empty while the flag is
\* false, a callback with fewer than two channels appends nothing, and while
\* playing the buffer holds exactly the samples of the playing callbacks with
\* at least two channels since the last rising edge.
C33_BufferIsCapture ==
    [][/\ ~transportRecording_' => currentSegmentBuffer_' = <<>>
       /\ \A isPlaying \in BOOLEAN, numCh \in {1, 2} :
             processBlock(isPlaying, numCh, RampBlock)
                 => /\ CallbackKeepsFlag(isPlaying, numCh)
                    /\ isPlaying => currentSegmentBuffer_' = captured']_vars

\* C33 (amended): the same, but the buffer holds the samples appended since
\* the last rising edge or the last clearAllSegments: it is the end of the
\* capture, the whole of it after a rising edge, and a playing callback
\* lengthens both by the same samples.
C33_BufferIsEndOfCapture ==
    [][/\ ~transportRecording_' => currentSegmentBuffer_' = <<>>
       /\ \A isPlaying \in BOOLEAN, numCh \in {1, 2} :
             processBlock(isPlaying, numCh, RampBlock)
                 => /\ CallbackKeepsFlag(isPlaying, numCh)
                    /\ IsSuffix(currentSegmentBuffer_', captured')
                    /\ isPlaying /\ ~wasPlaying_ => currentSegmentBuffer_' = captured'
                    /\ isPlaying /\ wasPlaying_ =>
                           Len(currentSegmentBuffer_') - Len(currentSegmentBuffer_)
                               = Len(captured') - Len(captured)]_vars

\* A callback has appended to a buffer that clearAllSegments emptied during
\* the capture.
C33_AppendedAfterClear ==
    /\ apc = "exchange"
    /\ transportRecording_
    /\ currentSegmentBuffer_ # <<>>
    /\ Len(currentSegmentBuffer_) < Len(captured)

\* ------------------------------------------------------- filling the ring
\* A result of exactly kPlaybackFifoFrames frames at the host's rate.
FullWav == WavBytes(2, kDefaultRate,
                    [i \in 1..kPlaybackFifoFrames |-> <<4 * i, 4 * i + 4>>])

\* Playback of results that are exactly as long as the ring.
NextRing ==
    \/ \E x \in Typed : startGenerate("msg", x[1], x[2]) /\ OneAtATime
    \/ CompareExchange("msg")
    \/ SpawnWorker("msg")
    \/ \E w \in Workers : WorkerStart(w)
    \/ \E w \in Workers : WorkerProbe(w, TRUE)
    \/ \E w \in Workers : WorkerSubmit(w, TRUE)
    \/ \E w \in Workers : WorkerPoll(w, PairPoll)
    \/ \E w \in Workers : WorkerFetch(w, FullWav)
    \/ Handler
    \/ AudioThread

SpecRing == InitPlay /\ [][NextRing]_vars

\* C34: the callback that takes the ready flag clears it, and when it has
\* loaded a frame count N from 1 to kPlaybackFifoFrames and copied the staged
\* buffer undisturbed, the ring holds exactly the N staged frames, first to
\* last, as its unread frames (which the callbacks then play in that order
\* before silence).
C34_AllStagedFramesQueued ==
    [][/\ apc = "exchange" /\ apc' # "exchange" => ~pendingPlaybackReady_'
       /\ (apc = "copy" /\ apc' = "read" /\ ~aRace)
              => /\ NumReady' = aN
                 /\ \A j \in 0..(aN - 1) :
                        RingFrame(j)' = <<aSnap[2 * j + 1], aSnap[2 * j + 2]>>]_vars

\* C35: once something has been published, staging begins to write, and
\* stores its samples into, the buffer that is not the published one; and it
\* sets the ready flag only when the samples, the frame count and the buffer
\* index of the new publication are all stored.
C35_WritesTheOtherBuffer ==
    [][/\ (tpc'["msg"] = "h_write" /\ tpc["msg"] # "h_write" /\ pendingPlaybackFrames_ > 0)
              => hWriteIdx' # pendingPlaybackBufferIndex_
       /\ (tpc["msg"] = "h_write" /\ tpc'["msg"] # "h_write" /\ pendingPlaybackFrames_ > 0)
              => /\ hWriteIdx # pendingPlaybackBufferIndex_
                 /\ pendingPlaybackBuffer_'[pendingPlaybackBufferIndex_]
                        = pendingPlaybackBuffer_[pendingPlaybackBufferIndex_]
       /\ (tpc["msg"] = "h_ready" /\ tpc'["msg"] # "h_ready")
              => /\ pendingPlaybackReady_'
                 /\ pendingPlaybackBuffer_[hWriteIdx] = hOut
                 /\ pendingPlaybackFrames_ = Len(hOut) \div 2
                 /\ pendingPlaybackBufferIndex_ = hWriteIdx
       /\ (pendingPlaybackReady_' /\ ~pendingPlaybackReady_) => tpc["msg"] = "h_ready"]_vars

\* A third result is being written into buffer 0 while buffer 1 is the
\* published one.
C35_WritingThird ==
    /\ tpc["msg"] = "h_write"
    /\ hWriteIdx = 0
    /\ pendingPlaybackBufferIndex_ = 1
    /\ pendingPlaybackFrames_ > 0

\* C36: the payload a cover or add-vocals worker encodes holds exactly the
\* frames of the job's segment from trimStart up to, not including, the
\* effective end (trimEnd when it is positive, else the frame count), in
\* order and at the segment's rate; when that span is empty nothing is
\* encoded and the job ends in Failed with no upload call.
C36_EncodesTrimmedSpan ==
    [][\A w \in Workers :
          (WorkerEncode(w) /\ jobSegmentIndex_ \in 0..(Len(segments_) - 1))
              => LET seg == segments_[jobSegmentIndex_ + 1]
                     start == seg.trimStartSamples
                     end == IF seg.trimEndSamples > 0 THEN seg.trimEndSamples
                            ELSE Len(seg.buffer) \div 2
                 IN IF end - start > 0
                    THEN /\ wwav'[w].what = "wav"
                         /\ wwav'[w].rate = seg.sampleRate
                         /\ Len(wwav'[w].frames) = end - start
                         /\ \A i \in 1..(end - start) :
                                wwav'[w].frames[i] = <<seg.buffer[2 * (start + i - 1) + 1],
                                                       seg.buffer[2 * (start + i - 1) + 2]>>
                         /\ wpc'[w] = "upload"
                    ELSE /\ wwav'[w] = NoBytes
                         /\ state_' = "Failed"
                         /\ statusText_' = "Failed to encode selected segment as WAV"
                         /\ wpc'[w] = "none"
                         /\ wcalls[w].upload = 0]_vars

\* A worker holds the last two frames of a three-frame segment trimmed at
\* its start.
C36_EncodedTail ==
    \E w \in Workers :
        /\ wpc[w] = "upload"
        /\ wwav[w].frames = <<<<8, 12>>, <<12, 16>>>>

\* C37: in every state reached by capture commits, removeSegment,
\* clearAllSegments and setSegmentTrim, the selected index is -1 or the index
\* of a segment in the store.
C37_SelectionValid ==
    selectedSegmentIndex_ = -1
        \/ (0 <= selectedSegmentIndex_ /\ selectedSegmentIndex_ < Len(segments_))

\* The selected one of two segments was removed: nothing is selected though
\* a segment is left.
C37_NothingSelectedOfOne ==
    /\ Len(segments_) = 1
    /\ selectedSegmentIndex_ = -1

\* ------------------------------------------------- the store under a job
\* Cover and add-vocals jobs while the store changes: the host records, the
\* user trims the start of the first segment, removes segments and clears the store, and
\* the backend accepts the probe, answers the upload either way and refuses
\* the submit.
NextSwap ==
    \/ \E isPlaying \in BOOLEAN : processBlock(isPlaying, 2, RampBlock)
    \/ DrainExchange
    \/ DrainRead
    \/ \E x \in Typed : startUploadCover("msg", x[1], x[2]) /\ OneAtATime
    \/ \E x \in Typed : startAddVocals("msg", x[1], x[2]) /\ OneAtATime
    \/ CompareExchange("msg")
    \/ SpawnWorker("msg")
    \/ \E w \in Workers : WorkerStart(w)
    \/ \E w \in Workers : WorkerProbe(w, TRUE)
    \/ \E w \in Workers : WorkerEncode(w)
    \/ \E w \in Workers, ok \in BOOLEAN : WorkerUpload(w, ok)
    \/ \E w \in Workers : WorkerSubmit(w, FALSE)
    \/ \E a \in 0..1 : setSegmentTrim(0, a, 0)
    \/ \E i \in 0..(MaxSegments - 1) : removeSegment(i)
    \/ clearAllSegments

SpecSwap == InitPlay /\ [][NextSwap]_vars

\* C38: the payload a cover or add-vocals worker encodes is taken from the
\* segment that was selected when the job was triggered, whatever was
\* removed, cleared, trimmed or recorded between the trigger and the encode
\* step.
C38_EncodesTriggeredSegment ==
    [][\A w \in Workers :
          (WorkerEncode(w) /\ wwav'[w] # NoBytes)
              => segments_[jobSegmentIndex_ + 1].buffer = jobSegment]_vars

\* --------------------------------------------- publications of two lengths
\* A result of three frames at the host's rate.
ThreeFrames == WavBytes(2, kDefaultRate, <<<<4, 8>>, <<8, 12>>, <<12, 16>>>>)

\* Playback of results of two and of three frames, so that the frame count
\* tells the publications apart, while the host calls processBlock with
\* silent one-frame blocks.
NextMix ==
    \/ \E x \in Typed : startGenerate("msg", x[1], x[2]) /\ OneAtATime
    \/ CompareExchange("msg")
    \/ SpawnWorker("msg")
    \/ \E w \in Workers : WorkerStart(w)
    \/ \E w \in Workers : WorkerProbe(w, TRUE)
    \/ \E w \in Workers : WorkerSubmit(w, TRUE)
    \/ \E w \in Workers : WorkerPoll(w, PairPoll)
    \/ \E w \in Workers, bytes \in {DecodedWav, ThreeFrames} : WorkerFetch(w, bytes)
    \/ Handler
    \/ processBlock(FALSE, 2, Silence(1))
    \/ DrainExchange
    \/ DrainLoadFrames
    \/ DrainLoadIndex
    \/ DrainCopy
    \/ DrainRead

SpecMix == InitPlay /\ [][NextMix]_vars

\* C39: the frame count and the buffer index a callback loads after taking
\* the ready flag belong to one publication: when the index is loaded, the
\* buffer it names holds exactly as many frames as the count loaded before.
C39_CountAndIndexOfOnePublication ==
    [][(apc = "loadIdx" /\ apc' # "loadIdx")
           => Len(pendingPlaybackBuffer_[aBufIdx']) = 2 * aN]_vars

\* C40: the is-test flag travels with its payload.  A drain that takes a
\* payload takes the flag as true exactly when a connectivity-test job
\* deposited the payload (its prompt is "API test") and leaves the flag
\* false; the handler's end sets the test status text exactly for such a
\* payload, and writes a library file only for a payload of another job.
C40_TestFlagTravelsWithPayload ==
    [][/\ (handleAsyncUpdate /\ pendingWavBytes_ # NoBytes)
             => (hIsTest' = (pendingPrompt_ = "API test") /\ pendingIsTest_' = FALSE)
       /\ (tpc["msg"] \in {"h_decode", "h_ready"} /\ state_' = "Succeeded"
             /\ tpc'["msg"] = "idle")
             => /\ (statusText_' = "API test passed - audio received and playing.")
                       = (hPrompt = "API test")
                /\ library' # library => hPrompt # "API test"
       /\ "API test" \notin library']_vars

====
